---- MODULE Spec2Model ----
(***************************************************************************)
(* Dual-store consistency layer of rag-clean-energy: the DataAgent units   *)
(* of work (librarian.py) over the Chroma vector store (chroma.py) and the *)
(* MySQL metadata store (mysql_manager.py, dao/models.py), and the BFS     *)
(* crawler (web_scraper.py).                                               *)
(*                                                                         *)
(* Modelling conventions                                                   *)
(*  - A table is a bag of rows (web_page, file_page) or a set of rows      *)
(*    (chunk tables, whose id is the primary key).                         *)
(*  - A relational session is the delta of its open transaction: the rows  *)
(*    it deleted and the rows it inserted.  A statement sees the committed *)
(*    tables with the session's own delta applied; commit applies the      *)
(*    delta, rollback drops it.  A statement that touches a key another    *)
(*    open transaction has changed waits (the action is not enabled).      *)
(*  - Every store call can fail (ok = FALSE) where faults are injected;    *)
(*    a failing vector-store call changes nothing in the store.            *)
(*  - Chroma's get_by_ids returns the documents of the ids it holds, in    *)
(*    the order of the ids asked for; add with given ids is an upsert.     *)
(***************************************************************************)
EXTENDS Bags, FiniteSets, Integers, Naturals, Sequences, TLC

\* ------------------------------------------------------------------ bounds
MaxUnits == 2
MaxChunks == 2
MaxTime == 1
MaxConcUnits == 3
MaxSegs == 3
MaxRootSegs == 2
MaxPages == 2
MaxCalls == 2
MaxDays == 8

\* --------------------------------------------------------------- constants
Procs == {1, 2}
Langs == {"en", "zh"}
\* A string is the sequence of its characters and an int n the one-element
\* sequence <<"int:n">>; sources and files that are not parsed are one
\* character long.
Sources == {<<"s1">>, <<"s2">>}
SourceOrder == <<(<<"s1">>), (<<"s2">>)>>
Files == {<<"f1">>}
PageValues == {<<"int:1">>, <<"int:2">>}
PageOrder == <<(<<"int:1">>), (<<"int:2">>)>>
NoFreq == 0 - 1
Freqs == {NoFreq, 1}
UnitFreqs == {NoFreq}
NoPage == <<>>

VARIABLES
  vector_stores,     \* [Langs -> [ids held -> stored document]]
  web_page,          \* committed rows of table web_page (bag)
  web_page_chunk,    \* committed rows of table web_page_chunk (set)
  file_page,         \* committed rows of table file_page (bag)
  file_page_chunk,   \* committed rows of table file_page_chunk (set)
  session,           \* [Procs -> delta of the open transaction]
  unit,              \* [Procs -> frame of the unit of work being run]
  pre,               \* [Procs -> stores as they were when the unit started]
  now,               \* datetime.now(), in days
  nunits,            \* units of work started so far
  inject,            \* store faults are injected in this run
  concurrent,        \* units of work may overlap in this run
  kind,              \* the documents this run works on: "web" or "file"
  scraper,           \* the WebScraper object: scraped_urls, downloaded_files
  crawl,             \* frame of the process_url call being run, and the
                     \* calls made so far
  site,              \* the web site: per URL, its response and its links
  probe              \* a call of a URL predicate: its arguments and answer

vars == <<vector_stores, web_page, web_page_chunk, file_page, file_page_chunk,
          session, unit, pre, now, nunits, inject, concurrent,
          kind, scraper, crawl, site, probe>>

\* ----------------------------------------------------------------- helpers
Min(a, b) == IF a < b THEN a ELSE b

Range(s) == {s[i] : i \in 1..Len(s)}

RECURSIVE SortedIds(_)
SortedIds(S) ==
  IF S = {} THEN <<>>
  ELSE LET m == CHOOSE x \in S : \A y \in S : x <= y
       IN <<m>> \o SortedIds(S \ {m})

SeqOfSources(S) == SelectSeq(SourceOrder, LAMBDA s : s \in S)

\* The rank of a source in SourceOrder.
IngestedId(src) == CHOOSE k \in 1..Len(SourceOrder) : SourceOrder[k] = src

RECURSIVE Flatten(_)
Flatten(ss) == IF ss = <<>> THEN <<>> ELSE Head(ss) \o Flatten(Tail(ss))

\* Python truthiness of a metadata value: None, '' and the int 0 are falsy.
Truthy(v) == v \notin {<<>>, <<"int:0">>}

\* str(value) of a metadata value: an int page number becomes its digits.
Str(v) == IF v = <<"int:0">> THEN <<"0">>
          ELSE IF v = <<"int:1">> THEN <<"1">>
          ELSE IF v = <<"int:2">> THEN <<"2">>
          ELSE v

\* hashlib.sha256(source.encode('utf-8')).hexdigest()
sha256(source) == <<"sha256", source>>

\* Rows of a bag that satisfy a predicate, with their multiplicities.
SubBagWhere(B, P(_)) ==
  LET S == {r \in BagToSet(B) : P(r)} IN [r \in S |-> B[r]]

RECURSIVE SumOver(_, _)
SumOver(S, B) ==
  IF S = {} THEN 0
  ELSE LET x == CHOOSE y \in S : TRUE IN B[x] + SumOver(S \ {x}, B)

\* The rows of bag B with their date set to now.
Redated(B) ==
  LET img == {[r EXCEPT !.date = now] : r \in BagToSet(B)}
  IN [m \in img |->
        SumOver({r \in BagToSet(B) : [r EXCEPT !.date = now] = m}, B)]

Faults == IF inject THEN BOOLEAN ELSE {TRUE}

\* What the units of a run are given: overlapping units all work on the
\* same source, page and language.
UnitSources == IF concurrent THEN {<<"s1">>} ELSE Sources
UnitPages == IF concurrent THEN {<<"int:1">>} ELSE PageValues
UnitLangs == IF concurrent THEN {"en"} ELSE Langs
UnitChunks == IF concurrent THEN {1} ELSE 1..MaxChunks

\* ------------------------------------------------------------ vector store
EmptyStore == [i \in {} |-> 0]

\* A get_by_ids that finds nothing.
get_documents_by_ids_nothing(store, ids) == <<>>

\* ChromaVectorStore.get_documents_by_ids
get_documents_by_ids(store, ids) ==
  LET present == SelectSeq(ids, LAMBDA i : i \in DOMAIN store)
  IN [k \in 1..Len(present) |-> store[present[k]]]

\* A delete that removes nothing.
vs_delete_nothing(store, ids) == store

\* ChromaVectorStore.delete: ids that are not held are ignored.
vs_delete(store, ids) ==
  [i \in (DOMAIN store) \ Range(ids) |-> store[i]]

\* An add_documents that ignores the ids it is given and always generates.
add_documents_generating(store, documents, ids, secondary_key, fresh, store_ok) ==
  LET n == Min(Len(documents), Len(fresh))
      written == [i \in (DOMAIN store) \cup {fresh[k] : k \in 1..n} |->
                    IF \E k \in 1..n : fresh[k] = i
                    THEN documents[CHOOSE k \in 1..n : fresh[k] = i]
                    ELSE store[i]]
  IN IF ~store_ok THEN [ok |-> FALSE, store |-> store, info |-> <<>>]
     ELSE [ok |-> TRUE, store |-> written,
           info |-> [i \in 1..n |->
                       [id |-> fresh[i], source |-> documents[i].source,
                        page |-> IF secondary_key = "page"
                                 THEN Str(documents[i].page) ELSE NoPage]]]

\* An add_documents that does not look at the metadata of the documents.
add_documents_unchecked(store, documents, ids, secondary_key, fresh, store_ok) ==
  LET uuids == IF ids.given THEN ids.v ELSE fresh
      n == Min(Len(documents), Len(uuids))
      written == [i \in (DOMAIN store) \cup {uuids[k] : k \in 1..n} |->
                    IF \E k \in 1..n : uuids[k] = i
                    THEN documents[CHOOSE k \in 1..n : uuids[k] = i]
                    ELSE store[i]]
  IN IF ~store_ok THEN [ok |-> FALSE, store |-> store, info |-> <<>>]
     ELSE [ok |-> TRUE, store |-> written,
           info |-> [i \in 1..n |->
                       [id |-> uuids[i], source |-> documents[i].source,
                        page |-> IF secondary_key = "page"
                                 THEN Str(documents[i].page) ELSE NoPage]]]

\* ChromaVectorStore.add_documents.  ids = [given, v]; fresh = the uuids
\* uuid4 would generate; store_ok = the Chroma call itself succeeds.
add_documents(store, documents, ids, secondary_key, fresh, store_ok) ==
  LET uuids == IF ids.given THEN ids.v ELSE fresh
      n == Min(Len(documents), Len(uuids))
      fail == [ok |-> FALSE, store |-> store, info |-> <<>>]
      missing(i) ==
        \/ ~Truthy(documents[i].source)
        \/ secondary_key = "page" /\ ~Truthy(documents[i].page)
      info == [i \in 1..n |->
                 [id |-> uuids[i], source |-> documents[i].source,
                  page |-> IF secondary_key = "page"
                           THEN Str(documents[i].page) ELSE NoPage]]
      written == [i \in (DOMAIN store) \cup {uuids[k] : k \in 1..n} |->
                    IF \E k \in 1..n : uuids[k] = i
                    THEN documents[CHOOSE k \in 1..n :
                                     /\ uuids[k] = i
                                     /\ \A j \in 1..n : uuids[j] = i => j <= k]
                    ELSE store[i]]
  IN IF ids.given /\ Len(ids.v) # Len(documents) THEN fail
     ELSE IF \E i \in 1..n : missing(i) THEN fail
     ELSE IF ~store_ok THEN fail
     ELSE [ok |-> TRUE, store |-> written, info |-> info]

NoIds == [given |-> FALSE, v |-> <<>>]
GivenIds(ids) == [given |-> TRUE, v |-> ids]
InfoIds(info) == [k \in 1..Len(info) |-> info[k].id]

\* -------------------------------------------------------- relational store
NoDelta == [wp_del |-> EmptyBag, wp_ins |-> EmptyBag,
            wpc_del |-> {}, wpc_ins |-> {},
            fp_del |-> EmptyBag, fp_ins |-> EmptyBag,
            fpc_del |-> {}, fpc_ins |-> {}]

\* What a statement of session p sees: committed rows with p's delta applied.
v_web_page(p) == (web_page (-) session[p].wp_del) (+) session[p].wp_ins
v_web_page_chunk(p) ==
  (web_page_chunk \ session[p].wpc_del) \cup session[p].wpc_ins
v_file_page(p) == (file_page (-) session[p].fp_del) (+) session[p].fp_ins
v_file_page_chunk(p) ==
  (file_page_chunk \ session[p].fpc_del) \cup session[p].fpc_ins

\* Keys changed by the open transactions of the other sessions.
OtherWebSources(p) ==
  UNION {{r.source : r \in BagToSet(session[q].wp_del)}
           \cup {r.source : r \in BagToSet(session[q].wp_ins)} :
         q \in Procs \ {p}}
OtherWebChunkSources(p) ==
  UNION {{r.source : r \in session[q].wpc_del \cup session[q].wpc_ins} :
         q \in Procs \ {p}}
OtherWebChunkIds(p) ==
  UNION {{r.id : r \in session[q].wpc_del \cup session[q].wpc_ins} :
         q \in Procs \ {p}}
OtherFileKeys(p) ==
  UNION {{<<r.source, r.page>> : r \in BagToSet(session[q].fp_del)}
           \cup {<<r.source, r.page>> : r \in BagToSet(session[q].fp_ins)} :
         q \in Procs \ {p}}
OtherFileChunkKeys(p) ==
  UNION {{<<r.source, r.page>> :
            r \in session[q].fpc_del \cup session[q].fpc_ins} :
         q \in Procs \ {p}}
OtherFileChunkIds(p) ==
  UNION {{r.id : r \in session[q].fpc_del \cup session[q].fpc_ins} :
         q \in Procs \ {p}}

\* WebPage.is_refresh_needed with datetime.now() > next_refresh_due().
is_refresh_needed_strict(row) ==
  IF row.refresh_frequency = NoFreq THEN FALSE
  ELSE now > row.date + row.refresh_frequency

\* WebPage.is_refresh_needed / next_refresh_due
is_refresh_needed(row) ==
  IF row.refresh_frequency = NoFreq THEN FALSE
  ELSE now >= row.date + row.refresh_frequency

\* MySQLManager.check_web_page_exists: the rows with the url's checksum.
check_web_page_exists(p, url) ==
  {r \in BagToSet(v_web_page(p)) : r.checksum = sha256(url)}

\* MySQLManager.get_active_urls
get_active_urls(p) ==
  {r.source : r \in {x \in BagToSet(v_web_page(p)) : ~is_refresh_needed(x)}}

\* MySQLManager.check_file_exists_by_source
check_file_exists_by_source(p, file_source) ==
  {r \in BagToSet(v_file_page(p)) : r.source = file_source}

\* An INSERT into a web_page table whose checksum column is not unique.
insert_web_pages_not_unique(p, document_info_list, ok) ==
  LET rows == {[source |-> document_info_list[k].source,
                checksum |-> sha256(document_info_list[k].source),
                date |-> now,
                refresh_frequency |-> document_info_list[k].refresh_frequency,
                language |-> document_info_list[k].language] :
               k \in 1..Len(document_info_list)}
  IN IF ok
     THEN [raised |-> FALSE,
           s |-> [session[p] EXCEPT !.wp_ins = @ (+) SetToBag(rows)]]
     ELSE [raised |-> TRUE, s |-> NoDelta]

\* MySQLManager.insert_web_pages: one bulk INSERT; checksum is UNIQUE.
\* Result: [raised, s] with s the session delta afterwards.
insert_web_pages(p, document_info_list, ok) ==
  LET rows == [k \in 1..Len(document_info_list) |->
                 [source |-> document_info_list[k].source,
                  checksum |-> sha256(document_info_list[k].source),
                  date |-> now,
                  refresh_frequency |->
                    document_info_list[k].refresh_frequency,
                  language |-> document_info_list[k].language]]
      duplicate ==
        \/ \E k \in 1..Len(rows) :
             \E r \in BagToSet(v_web_page(p)) : r.checksum = rows[k].checksum
        \/ \E j, k \in 1..Len(rows) :
             j # k /\ rows[j].checksum = rows[k].checksum
      added == [r \in Range(rows) |->
                  Cardinality({k \in 1..Len(rows) : rows[k] = r})]
  IN IF ok /\ ~duplicate
     THEN [raised |-> FALSE,
           s |-> [session[p] EXCEPT !.wp_ins = @ (+) added]]
     ELSE [raised |-> TRUE, s |-> NoDelta]

\* An insert_web_page_chunks that adds no row.
insert_web_page_chunks_nothing(p, chunk_info_list, ok) ==
  [raised |-> FALSE, s |-> session[p]]

\* MySQLManager.insert_web_page_chunks: id is the primary key, source is a
\* foreign key to web_page.source.
insert_web_page_chunks(p, chunk_info_list, ok) ==
  LET rows == {[id |-> chunk_info_list[k].id,
                source |-> chunk_info_list[k].source] :
               k \in 1..Len(chunk_info_list)}
      pk_taken == \E r \in rows : \E x \in v_web_page_chunk(p) : x.id = r.id
      fk_ok == \A r \in rows :
                 \E w \in BagToSet(v_web_page(p)) : w.source = r.source
  IN IF ok /\ ~pk_taken /\ fk_ok
     THEN [raised |-> FALSE,
           s |-> [session[p] EXCEPT !.wpc_ins = @ \cup rows]]
     ELSE [raised |-> TRUE, s |-> NoDelta]

\* MySQLManager.update_web_pages_date: date = now on every row whose source
\* is listed; no row matching is not an error.
update_web_pages_date(p, urls, ok) ==
  LET s0 == session[p]
      listed(r) == r.source \in Range(urls)
      del_c == SubBagWhere(web_page (-) s0.wp_del, listed)
      ins_left == s0.wp_ins (-) SubBagWhere(s0.wp_ins, listed)
      redated == Redated(SubBagWhere(v_web_page(p), listed))
  IN IF urls = <<>> THEN [raised |-> FALSE, s |-> s0]
     ELSE IF ok
     THEN [raised |-> FALSE,
           s |-> [s0 EXCEPT !.wp_del = @ (+) del_c,
                            !.wp_ins = ins_left (+) redated]]
     ELSE [raised |-> TRUE, s |-> NoDelta]

\* MySQLManager.delete_web_pages_by_sources: a page that chunk rows still
\* reference cannot be deleted (foreign key).
delete_web_pages_by_sources(p, sources, ok) ==
  LET s0 == session[p]
      del_c == SubBagWhere(web_page (-) s0.wp_del,
                           LAMBDA r : r.source \in Range(sources))
      ins_left == s0.wp_ins (-) SubBagWhere(s0.wp_ins,
                           LAMBDA r : r.source \in Range(sources))
      hit == SubBagWhere(v_web_page(p), LAMBDA r : r.source \in Range(sources))
      referenced == \E r \in BagToSet(hit) :
                      \E c \in v_web_page_chunk(p) : c.source = r.source
  IN IF sources = <<>> THEN [raised |-> FALSE, s |-> s0]
     ELSE IF ok /\ ~referenced
     THEN [raised |-> FALSE,
           s |-> [s0 EXCEPT !.wp_del = @ (+) del_c, !.wp_ins = ins_left]]
     ELSE [raised |-> TRUE, s |-> NoDelta]

\* MySQLManager.delete_web_page_chunks_by_ids: a database error is rolled
\* back and printed, never raised.
delete_web_page_chunks_by_ids(p, chunk_ids, ok) ==
  LET s0 == session[p]
      ids == Range(chunk_ids)
  IN IF chunk_ids = <<>> THEN [raised |-> FALSE, s |-> s0]
     ELSE IF ok
     THEN [raised |-> FALSE,
           s |-> [s0 EXCEPT
                    !.wpc_del = @ \cup {r \in web_page_chunk : r.id \in ids},
                    !.wpc_ins = {r \in @ : r.id \notin ids}]]
     ELSE [raised |-> FALSE, s |-> NoDelta]

\* MySQLManager.get_web_page_chunk_ids_by_single_source: [] on an error.
get_web_page_chunk_ids_by_single_source(p, source, ok) ==
  IF ok THEN SortedIds({r.id : r \in {x \in v_web_page_chunk(p) :
                                        x.source = source}})
  ELSE <<>>

\* MySQLManager.get_web_page_chunk_ids_by_sources: [] on an error.
get_web_page_chunk_ids_by_sources(p, sources, ok) ==
  IF sources = <<>> THEN <<>>
  ELSE IF ok
  THEN SortedIds({r.id : r \in {x \in v_web_page_chunk(p) :
                                  x.source \in Range(sources)}})
  ELSE <<>>

\* MySQLManager.get_web_page_language_by_single_source: the languages the
\* query can return as its first row; {} stands for None.
get_web_page_language_by_single_source(p, source, ok) ==
  IF ok THEN {r.language : r \in {x \in BagToSet(v_web_page(p)) :
                                    x.source = source}}
  ELSE {}

\* MySQLManager.insert_file_pages: file_page has no unique key.
insert_file_pages(p, document_info_list, ok) ==
  LET rows == [k \in 1..Len(document_info_list) |->
                 [source |-> document_info_list[k].source,
                  page |-> document_info_list[k].page,
                  date |-> now,
                  language |-> document_info_list[k].language]]
      added == [r \in Range(rows) |->
                  Cardinality({k \in 1..Len(rows) : rows[k] = r})]
  IN IF ok
     THEN [raised |-> FALSE,
           s |-> [session[p] EXCEPT !.fp_ins = @ (+) added]]
     ELSE [raised |-> TRUE, s |-> NoDelta]

\* MySQLManager.insert_file_page_chunks: id is the primary key, (source,
\* page) is a foreign key to file_page.
insert_file_page_chunks(p, chunk_info_list, ok) ==
  LET rows == {[id |-> chunk_info_list[k].id,
                source |-> chunk_info_list[k].source,
                page |-> chunk_info_list[k].page] :
               k \in 1..Len(chunk_info_list)}
      pk_taken == \E r \in rows : \E x \in v_file_page_chunk(p) : x.id = r.id
      fk_ok == \A r \in rows :
                 \E f \in BagToSet(v_file_page(p)) :
                   f.source = r.source /\ f.page = r.page
  IN IF ok /\ ~pk_taken /\ fk_ok
     THEN [raised |-> FALSE,
           s |-> [session[p] EXCEPT !.fpc_ins = @ \cup rows]]
     ELSE [raised |-> TRUE, s |-> NoDelta]

\* A delete of file pages that matches on the source alone.
delete_file_pages_by_sources_only(p, sources_and_pages, ok) ==
  LET s0 == session[p]
      listed(r) == \E k \in 1..Len(sources_and_pages) :
                     sources_and_pages[k][1] = r.source
      del_c == SubBagWhere(file_page (-) s0.fp_del, listed)
      ins_left == s0.fp_ins (-) SubBagWhere(s0.fp_ins, listed)
  IN IF sources_and_pages = <<>> \/ ~ok THEN [raised |-> ~ok, s |-> s0]
     ELSE [raised |-> FALSE,
           s |-> [s0 EXCEPT !.fp_del = @ (+) del_c, !.fp_ins = ins_left]]

\* MySQLManager.delete_file_pages_by_sources_and_pages
delete_file_pages_by_sources_and_pages(p, sources_and_pages, ok) ==
  LET s0 == session[p]
      listed(r) == <<r.source, r.page>> \in Range(sources_and_pages)
      del_c == SubBagWhere(file_page (-) s0.fp_del, listed)
      ins_left == s0.fp_ins (-) SubBagWhere(s0.fp_ins, listed)
      referenced == \E r \in BagToSet(SubBagWhere(v_file_page(p), listed)) :
                      \E c \in v_file_page_chunk(p) :
                        c.source = r.source /\ c.page = r.page
  IN IF sources_and_pages = <<>> THEN [raised |-> FALSE, s |-> s0]
     ELSE IF ok /\ ~referenced
     THEN [raised |-> FALSE,
           s |-> [s0 EXCEPT !.fp_del = @ (+) del_c, !.fp_ins = ins_left]]
     ELSE [raised |-> TRUE, s |-> NoDelta]

\* MySQLManager.delete_file_page_chunks_by_ids: a database error is rolled
\* back and printed, never raised.
delete_file_page_chunks_by_ids(p, chunk_ids, ok) ==
  LET s0 == session[p]
      ids == Range(chunk_ids)
  IN IF chunk_ids = <<>> THEN [raised |-> FALSE, s |-> s0]
     ELSE IF ok
     THEN [raised |-> FALSE,
           s |-> [s0 EXCEPT
                    !.fpc_del = @ \cup {r \in file_page_chunk : r.id \in ids},
                    !.fpc_ins = {r \in @ : r.id \notin ids}]]
     ELSE [raised |-> FALSE, s |-> NoDelta]

\* MySQLManager.get_file_page_chunk_ids: [] on an error.
get_file_page_chunk_ids(p, metadata, ok) ==
  IF metadata = <<>> THEN <<>>
  ELSE IF ok
  THEN SortedIds({r.id : r \in {x \in v_file_page_chunk(p) :
                                  <<x.source, x.page>> \in Range(metadata)}})
  ELSE <<>>

\* session.commit(): the tables with the session's delta applied.
Committed(p) ==
  [web_page |-> v_web_page(p), web_page_chunk |-> v_web_page_chunk(p),
   file_page |-> v_file_page(p), file_page_chunk |-> v_file_page_chunk(p)]

\* ------------------------------------------------------------ unit of work
\* Frame of a DataAgent unit of work: its arguments, its local variables
\* (bound = the locals assigned so far), where it stands, how it ended.
Idle == [op |-> "none", pc |-> "idle",
         docs_metadata |-> <<>>, chunks |-> <<>>, language |-> "en",
         source |-> <<>>, sources |-> <<>>, sources_and_pages |-> <<>>,
         bound |-> {}, chunks_metadata |-> <<>>, old_chunk_ids |-> <<>>,
         old_documents |-> <<>>, new_chunks_metadata |-> <<>>,
         result |-> "none", committed |-> FALSE, undo |-> "none",
         failed_at |-> "none", caller |-> "none", sess |-> <<>>]

\* The frame after a call of the unit's session: create_session(),
\* session.commit(), session.rollback() or close_session(session).
Logged(frame, call) == [frame EXCEPT !.sess = Append(@, call)]

\* The frame of a unit that has created its session.
Opened == Logged(Idle, "create")

Stores == [vector_stores |-> vector_stores, web_page |-> web_page,
           web_page_chunk |-> web_page_chunk, file_page |-> file_page,
           file_page_chunk |-> file_page_chunk]

Resting(p) == unit[p].pc \in {"idle", "done"}

\* A unit may start when the budget allows it and, unless units overlap,
\* no other unit is in progress (and process 1 runs them all).
MayStart(p, k) ==
  /\ kind = k
  /\ Resting(p)
  /\ nunits < (IF concurrent THEN MaxConcUnits ELSE MaxUnits)
  /\ concurrent \/ (p = 1 /\ \A q \in Procs : Resting(q))

\* The chunks the text processor makes of the documents: n per document,
\* each carrying its document's source (and page).
ChunksOf(docs, n, miss) ==
  LET per(k) == [j \in 1..n |->
                   [source |-> IF miss /\ k = Len(docs) /\ j = n
                               THEN <<>> ELSE docs[k].source,
                    page |-> docs[k].page,
                    text |-> IF j = 1 THEN "t1" ELSE "t2"]]
  IN Flatten([k \in 1..Len(docs) |-> per(k)])

Begin(p, frame) ==
  /\ unit' = [unit EXCEPT ![p] = frame]
  /\ pre' = [pre EXCEPT ![p] = Stores]
  /\ session' = [session EXCEPT ![p] = NoDelta]
  /\ nunits' = nunits + 1
  /\ UNCHANGED <<vector_stores, web_page, web_page_chunk, file_page,
                 file_page_chunk, now, inject, concurrent, kind, scraper,
                 crawl, site, probe>>

At(p, op, pc) == unit[p].op = op /\ unit[p].pc = pc

UnchangedTables ==
  UNCHANGED <<web_page, web_page_chunk, file_page, file_page_chunk>>
UnchangedRun == UNCHANGED <<pre, now, nunits, inject, concurrent, kind,
                            scraper, crawl, site, probe>>

\* uuid4(): ids no store, session or frame refers to.  Ids that nothing
\* refers to any more are handed out again, which no operation can observe.
UsedIds ==
  UNION ({DOMAIN vector_stores[l] : l \in Langs}
         \cup {{r.id : r \in web_page_chunk \cup file_page_chunk}}
         \cup {{r.id : r \in session[q].wpc_del \cup session[q].wpc_ins
                          \cup session[q].fpc_del \cup session[q].fpc_ins} :
               q \in Procs}
         \cup {Range(unit[q].old_chunk_ids) : q \in Procs}
         \cup {{c.id : c \in Range(unit[q].chunks_metadata)
                          \cup Range(unit[q].new_chunks_metadata)} :
               q \in Procs}
         \cup {DOMAIN pre[q].vector_stores[l] : q \in Procs, l \in Langs}
         \cup {{r.id : r \in pre[q].web_page_chunk
                          \cup pre[q].file_page_chunk} : q \in Procs})

RECURSIVE FreshFrom(_, _)
FreshFrom(n, i) ==
  IF n = 0 THEN <<>>
  ELSE IF i \in UsedIds THEN FreshFrom(n, i + 1)
  ELSE <<i>> \o FreshFrom(n - 1, i + 1)

FreshUuids(n) == FreshFrom(n, 1)

\* ----------------------------------------------- DataAgent.insert_web_data
insert_web_data_begin(p) ==
  /\ MayStart(p, "web")
  /\ \E srcs \in (SUBSET UnitSources) \ {{}}, freq \in UnitFreqs,
        lang \in UnitLangs, n \in UnitChunks, miss \in BOOLEAN :
       LET ss == SeqOfSources(srcs)
           docs == [k \in 1..Len(ss) |-> [source |-> ss[k], page |-> NoPage]]
       IN Begin(p, [Opened EXCEPT
                      !.op = "insert_web_data", !.pc = "add",
                      !.docs_metadata =
                         [k \in 1..Len(ss) |->
                            [source |-> ss[k], refresh_frequency |-> freq,
                             language |-> lang]],
                      !.chunks = ChunksOf(docs, n, miss),
                      !.language = lang])

\* Step 1: chunks_metadata = vector_stores[language].add_documents(chunks)
insert_web_data_add(p) ==
  /\ At(p, "insert_web_data", "add")
  /\ \E ok \in Faults :
       LET u == unit[p]
           r == add_documents(vector_stores[u.language], u.chunks, NoIds,
                              "None", FreshUuids(Len(u.chunks)), ok)
       IN /\ vector_stores' = [vector_stores EXCEPT ![u.language] = r.store]
          /\ unit' = [unit EXCEPT ![p] =
               IF r.ok
               THEN [u EXCEPT !.pc = "pages", !.chunks_metadata = r.info,
                              !.bound = @ \cup {"chunks_metadata"}]
               ELSE [u EXCEPT !.pc = "except", !.failed_at = "add"]]
  /\ UNCHANGED session
  /\ UnchangedTables
  /\ UnchangedRun

\* Step 2a: mysql_manager.insert_web_pages(session, docs_metadata)
insert_web_data_pages(p) ==
  /\ At(p, "insert_web_data", "pages")
  /\ {d.source : d \in Range(unit[p].docs_metadata)}
       \cap OtherWebSources(p) = {}
  /\ \E ok \in Faults :
       LET r == insert_web_pages(p, unit[p].docs_metadata, ok)
       IN /\ session' = [session EXCEPT ![p] = r.s]
          /\ unit' = [unit EXCEPT ![p] =
               IF r.raised
               THEN [@ EXCEPT !.pc = "except", !.failed_at = "pages"]
               ELSE [@ EXCEPT !.pc = "chunks"]]
  /\ UNCHANGED <<vector_stores>>
  /\ UnchangedTables
  /\ UnchangedRun

\* Step 2b: mysql_manager.insert_web_page_chunks(session, chunks_metadata)
insert_web_data_chunks(p) ==
  /\ At(p, "insert_web_data", "chunks")
  /\ {c.source : c \in Range(unit[p].chunks_metadata)}
       \cap OtherWebSources(p) = {}
  /\ \E ok \in Faults :
       LET r == insert_web_page_chunks(p, unit[p].chunks_metadata, ok)
       IN /\ session' = [session EXCEPT ![p] = r.s]
          /\ unit' = [unit EXCEPT ![p] =
               IF r.raised
               THEN [@ EXCEPT !.pc = "except", !.failed_at = "chunks"]
               ELSE [@ EXCEPT !.pc = "commit"]]
  /\ UNCHANGED <<vector_stores>>
  /\ UnchangedTables
  /\ UnchangedRun

\* session.commit() of a unit, followed by its return statement: on success
\* the delta becomes the tables and the unit returns; on failure nothing is
\* applied and the exception handler runs.
Commit(p) ==
  \E ok \in Faults :
    /\ web_page' = IF ok THEN Committed(p).web_page ELSE web_page
    /\ web_page_chunk' =
         IF ok THEN Committed(p).web_page_chunk ELSE web_page_chunk
    /\ file_page' = IF ok THEN Committed(p).file_page ELSE file_page
    /\ file_page_chunk' =
         IF ok THEN Committed(p).file_page_chunk ELSE file_page_chunk
    /\ session' = [session EXCEPT ![p] = IF ok THEN NoDelta ELSE @]
    /\ unit' = [unit EXCEPT ![p] =
         IF ok THEN [@ EXCEPT !.pc = "finally", !.committed = TRUE,
                              !.result = "returned",
                              !.sess = Append(@, "commit")]
         ELSE [@ EXCEPT !.pc = "except", !.failed_at = "commit"]]
    /\ UNCHANGED <<vector_stores>>
    /\ UnchangedRun

\* Step 3: session.commit(); return chunks_metadata
insert_web_data_commit(p) ==
  /\ At(p, "insert_web_data", "commit")
  /\ Commit(p)

\* except Exception: session.rollback(); without chunks_metadata the handler
\* ends without raising and the function returns None.
insert_web_data_except(p) ==
  /\ At(p, "insert_web_data", "except")
  /\ session' = [session EXCEPT ![p] = NoDelta]
  /\ unit' = [unit EXCEPT ![p] =
       IF "chunks_metadata" \in @.bound
       THEN [@ EXCEPT !.pc = "undo", !.sess = Append(@, "rollback")]
       ELSE [@ EXCEPT !.pc = "finally", !.result = "returned_none",
                      !.sess = Append(@, "rollback")]]
  /\ UNCHANGED <<vector_stores>>
  /\ UnchangedTables
  /\ UnchangedRun

\* A compensation that tries the delete again when it fails.
insert_web_data_undo_retrying(p) ==
  /\ At(p, "insert_web_data", "undo")
  /\ \E ok \in Faults :
       LET u == unit[p]
       IN /\ vector_stores' =
               IF ok
               THEN [vector_stores EXCEPT ![u.language] =
                       vs_delete(@, InfoIds(u.chunks_metadata))]
               ELSE vector_stores
          /\ unit' = [unit EXCEPT ![p] =
               IF ok
               THEN [u EXCEPT !.pc = "finally", !.result = "RuntimeError",
                              !.undo = "ok"]
               ELSE [u EXCEPT !.undo = "failed"]]
  /\ UNCHANGED <<session>>
  /\ UnchangedTables
  /\ UnchangedRun

\* Compensation: vector_stores[language].delete(ids=chunk_ids); a failure is
\* printed; then raise RuntimeError.
insert_web_data_undo(p) ==
  /\ At(p, "insert_web_data", "undo")
  /\ \E ok \in Faults :
       LET u == unit[p]
       IN /\ vector_stores' =
               IF ok
               THEN [vector_stores EXCEPT ![u.language] =
                       vs_delete(@, InfoIds(u.chunks_metadata))]
               ELSE vector_stores
          /\ unit' = [unit EXCEPT ![p] =
               [u EXCEPT !.pc = "finally", !.result = "RuntimeError",
                         !.undo = IF ok THEN "ok" ELSE "failed"]]
  /\ UNCHANGED <<session>>
  /\ UnchangedTables
  /\ UnchangedRun

\* A finally clause that leaves the session open.
Finally_unclosed(p) ==
  /\ unit' = [unit EXCEPT ![p] = [@ EXCEPT !.pc = "done"]]
  /\ UNCHANGED <<vector_stores, session>>
  /\ UnchangedTables
  /\ UnchangedRun

\* finally: mysql_manager.close_session(session)
Finally(p) ==
  /\ session' = [session EXCEPT ![p] = NoDelta]
  /\ unit' = [unit EXCEPT ![p] = Logged([@ EXCEPT !.pc = "done"], "close")]
  /\ UNCHANGED <<vector_stores>>
  /\ UnchangedTables
  /\ UnchangedRun

insert_web_data_finally(p) ==
  /\ At(p, "insert_web_data", "finally")
  /\ Finally(p)

\* ---------------------------------------------- DataAgent.insert_file_data
insert_file_data_begin(p) ==
  /\ MayStart(p, "file")
  /\ \E f \in Files, pgs \in (SUBSET UnitPages) \ {{}}, lang \in UnitLangs,
        n \in UnitChunks, miss \in BOOLEAN :
       LET ps == SelectSeq(PageOrder, LAMBDA x : x \in pgs)
           docs == [k \in 1..Len(ps) |-> [source |-> f, page |-> ps[k]]]
       IN Begin(p, [Opened EXCEPT
                      !.op = "insert_file_data", !.pc = "add",
                      !.docs_metadata =
                         [k \in 1..Len(ps) |->
                            [source |-> f, page |-> Str(ps[k]),
                             language |-> lang]],
                      !.chunks = ChunksOf(docs, n, miss),
                      !.language = lang])

\* Step 1: add_documents(documents=chunks, secondary_key='page')
insert_file_data_add(p) ==
  /\ At(p, "insert_file_data", "add")
  /\ \E ok \in Faults :
       LET u == unit[p]
           r == add_documents(vector_stores[u.language], u.chunks, NoIds,
                              "page", FreshUuids(Len(u.chunks)), ok)
       IN /\ vector_stores' = [vector_stores EXCEPT ![u.language] = r.store]
          /\ unit' = [unit EXCEPT ![p] =
               IF r.ok
               THEN [u EXCEPT !.pc = "pages", !.chunks_metadata = r.info,
                              !.bound = @ \cup {"chunks_metadata"}]
               ELSE [u EXCEPT !.pc = "except", !.failed_at = "add"]]
  /\ UNCHANGED session
  /\ UnchangedTables
  /\ UnchangedRun

\* Step 2a: mysql_manager.insert_file_pages(session, docs_metadata)
insert_file_data_pages(p) ==
  /\ At(p, "insert_file_data", "pages")
  /\ \E ok \in Faults :
       LET r == insert_file_pages(p, unit[p].docs_metadata, ok)
       IN /\ session' = [session EXCEPT ![p] = r.s]
          /\ unit' = [unit EXCEPT ![p] =
               IF r.raised
               THEN [@ EXCEPT !.pc = "except", !.failed_at = "pages"]
               ELSE [@ EXCEPT !.pc = "chunks"]]
  /\ UNCHANGED <<vector_stores>>
  /\ UnchangedTables
  /\ UnchangedRun

\* Step 2b: mysql_manager.insert_file_page_chunks(session, chunks_metadata)
insert_file_data_chunks(p) ==
  /\ At(p, "insert_file_data", "chunks")
  /\ {<<c.source, c.page>> : c \in Range(unit[p].chunks_metadata)}
       \cap OtherFileKeys(p) = {}
  /\ \E ok \in Faults :
       LET r == insert_file_page_chunks(p, unit[p].chunks_metadata, ok)
       IN /\ session' = [session EXCEPT ![p] = r.s]
          /\ unit' = [unit EXCEPT ![p] =
               IF r.raised
               THEN [@ EXCEPT !.pc = "except", !.failed_at = "chunks"]
               ELSE [@ EXCEPT !.pc = "commit"]]
  /\ UNCHANGED <<vector_stores>>
  /\ UnchangedTables
  /\ UnchangedRun

\* Step 3: session.commit(); return chunks_metadata
insert_file_data_commit(p) ==
  /\ At(p, "insert_file_data", "commit")
  /\ Commit(p)

\* except Exception: session.rollback(); without chunks_metadata the handler
\* ends without raising and the function returns None.
insert_file_data_except(p) ==
  /\ At(p, "insert_file_data", "except")
  /\ session' = [session EXCEPT ![p] = NoDelta]
  /\ unit' = [unit EXCEPT ![p] =
       IF "chunks_metadata" \in @.bound
       THEN [@ EXCEPT !.pc = "undo", !.sess = Append(@, "rollback")]
       ELSE [@ EXCEPT !.pc = "finally", !.result = "returned_none",
                      !.sess = Append(@, "rollback")]]
  /\ UNCHANGED <<vector_stores>>
  /\ UnchangedTables
  /\ UnchangedRun

\* Compensation: vector_stores[language].delete(ids=chunk_ids); a failure is
\* printed; then raise RuntimeError.
insert_file_data_undo(p) ==
  /\ At(p, "insert_file_data", "undo")
  /\ \E ok \in Faults :
       LET u == unit[p]
       IN /\ vector_stores' =
               IF ok
               THEN [vector_stores EXCEPT ![u.language] =
                       vs_delete(@, InfoIds(u.chunks_metadata))]
               ELSE vector_stores
          /\ unit' = [unit EXCEPT ![p] =
               [u EXCEPT !.pc = "finally", !.result = "RuntimeError",
                         !.undo = IF ok THEN "ok" ELSE "failed"]]
  /\ UNCHANGED <<session>>
  /\ UnchangedTables
  /\ UnchangedRun

insert_file_data_finally(p) ==
  /\ At(p, "insert_file_data", "finally")
  /\ Finally(p)

\* ------------------------------------------------- DataAgent.process_file
process_file_begin(p) ==
  /\ MayStart(p, "file")
  /\ \E f \in Files, lang \in UnitLangs :
       Begin(p, [Idle EXCEPT !.op = "process_file", !.pc = "exists",
                             !.source = f, !.language = lang,
                             !.caller = "process_file"])

\* Step 1: _file_source_exists(filepath), in a session of its own; an error
\* of the query is printed and answered False.  An existing file returns.
process_file_exists(p) ==
  /\ At(p, "process_file", "exists")
  /\ \E ok \in Faults :
       LET existing_file == check_file_exists_by_source(p, unit[p].source)
       IN unit' = [unit EXCEPT ![p] =
            IF ok /\ existing_file # {}
            THEN [@ EXCEPT !.pc = "done", !.result = "exists",
                           !.sess = <<"create", "close">>]
            ELSE [@ EXCEPT !.pc = "parse", !.sess = <<"create", "close">>]]
  /\ UNCHANGED <<vector_stores, session>>
  /\ UnchangedTables
  /\ UnchangedRun

\* Steps 2-5: _parse_file (one document per page, metadata page = str(page)),
\* clean, split, and the call of insert_file_data; a parser error is printed.
process_file_parse(p) ==
  /\ At(p, "process_file", "parse")
  /\ \E ok \in Faults, pgs \in (SUBSET UnitPages) \ {{}}, n \in UnitChunks :
       LET f == unit[p].source
           ps == SelectSeq(PageOrder, LAMBDA x : x \in pgs)
           docs == [k \in 1..Len(ps) |-> [source |-> f, page |-> ps[k]]]
       IN /\ unit' = [unit EXCEPT ![p] =
               IF ok
               THEN [@ EXCEPT !.op = "insert_file_data", !.pc = "add",
                              !.sess = <<"create">>,
                              !.docs_metadata =
                                 [k \in 1..Len(ps) |->
                                    [source |-> f, page |-> Str(ps[k]),
                                     language |-> unit[p].language]],
                              !.chunks = ChunksOf(docs, n, FALSE)]
               ELSE [@ EXCEPT !.pc = "done", !.result = "parse_error"]]
          /\ pre' = [pre EXCEPT ![p] = Stores]
  /\ UNCHANGED <<vector_stores, session, now, nunits, inject, concurrent,
                 kind, scraper, crawl, site, probe>>
  /\ UnchangedTables

\* ----------------------------------------------- DataAgent.update_web_data
update_web_data_begin(p) ==
  /\ MayStart(p, "web")
  /\ \E src \in UnitSources, n \in UnitChunks, miss \in BOOLEAN :
       Begin(p, [Opened EXCEPT
                   !.op = "update_web_data", !.pc = "get_ids",
                   !.source = src,
                   !.chunks = ChunksOf(<<[source |-> src, page |-> NoPage]>>,
                                       n, miss)])

\* 1-1: old_chunk_ids = get_web_page_chunk_ids_by_single_source(session, source)
update_web_data_get_ids(p) ==
  /\ At(p, "update_web_data", "get_ids")
  /\ \E ok \in Faults :
       unit' = [unit EXCEPT ![p] =
         [@ EXCEPT !.pc = "get_language",
                   !.old_chunk_ids =
                      get_web_page_chunk_ids_by_single_source(p, unit[p].source, ok),
                   !.bound = @ \cup {"old_chunk_ids"}]]
  /\ UNCHANGED <<vector_stores, session>>
  /\ UnchangedTables
  /\ UnchangedRun

\* 1-2: language = get_web_page_language_by_single_source(session, source);
\* None when no row is found, and vector_stores[None] is then a KeyError.
update_web_data_get_language(p) ==
  /\ At(p, "update_web_data", "get_language")
  /\ \E ok \in Faults :
       LET found == get_web_page_language_by_single_source(
                      p, unit[p].source, ok)
       IN IF found = {}
          THEN unit' = [unit EXCEPT ![p] =
                 [@ EXCEPT !.pc = "except", !.failed_at = "get_language"]]
          ELSE \E lang \in found :
                 unit' = [unit EXCEPT ![p] =
                   [@ EXCEPT !.pc = "snapshot", !.language = lang,
                             !.bound = @ \cup {"language"}]]
  /\ UNCHANGED <<vector_stores, session>>
  /\ UnchangedTables
  /\ UnchangedRun

\* An update that goes on to the deletions without taking the snapshot.
update_web_data_snapshot_skipped(p) ==
  /\ At(p, "update_web_data", "snapshot")
  /\ unit' = [unit EXCEPT ![p] = [@ EXCEPT !.pc = "delete_rows"]]
  /\ UNCHANGED <<vector_stores, session>>
  /\ UnchangedTables
  /\ UnchangedRun

\* 1-3: old_documents = vector_stores[language].get_documents_by_ids(ids)
update_web_data_snapshot(p) ==
  /\ At(p, "update_web_data", "snapshot")
  /\ \E ok \in Faults :
       unit' = [unit EXCEPT ![p] =
         IF ok
         THEN [@ EXCEPT !.pc = "delete_rows",
                        !.old_documents =
                           get_documents_by_ids(vector_stores[unit[p].language],
                                                unit[p].old_chunk_ids),
                        !.bound = @ \cup {"old_documents"}]
         ELSE [@ EXCEPT !.pc = "except", !.failed_at = "snapshot"]]
  /\ UNCHANGED <<vector_stores, session>>
  /\ UnchangedTables
  /\ UnchangedRun

\* 2-1: mysql_manager.delete_web_page_chunks_by_ids(session, old_chunk_ids)
update_web_data_delete_rows(p) ==
  /\ At(p, "update_web_data", "delete_rows")
  /\ Range(unit[p].old_chunk_ids) \cap OtherWebChunkIds(p) = {}
  /\ \E ok \in Faults :
       LET r == delete_web_page_chunks_by_ids(p, unit[p].old_chunk_ids, ok)
       IN /\ session' = [session EXCEPT ![p] = r.s]
          /\ unit' = [unit EXCEPT ![p] = [@ EXCEPT !.pc = "delete_vectors"]]
  /\ UNCHANGED <<vector_stores>>
  /\ UnchangedTables
  /\ UnchangedRun

\* 2-2: vector_stores[language].delete(ids=old_chunk_ids)
update_web_data_delete_vectors(p) ==
  /\ At(p, "update_web_data", "delete_vectors")
  /\ \E ok \in Faults :
       LET u == unit[p]
       IN /\ vector_stores' =
               IF ok
               THEN [vector_stores EXCEPT ![u.language] =
                       vs_delete(@, u.old_chunk_ids)]
               ELSE vector_stores
          /\ unit' = [unit EXCEPT ![p] =
               IF ok THEN [u EXCEPT !.pc = "date"]
               ELSE [u EXCEPT !.pc = "except",
                              !.failed_at = "delete_vectors"]]
  /\ UNCHANGED <<session>>
  /\ UnchangedTables
  /\ UnchangedRun

\* 3-1: mysql_manager.update_web_pages_date(session, [source])
update_web_data_date(p) ==
  /\ At(p, "update_web_data", "date")
  /\ unit[p].source \notin OtherWebSources(p) \cup OtherWebChunkSources(p)
  /\ \E ok \in Faults :
       LET r == update_web_pages_date(p, <<unit[p].source>>, ok)
       IN /\ session' = [session EXCEPT ![p] = r.s]
          /\ unit' = [unit EXCEPT ![p] =
               IF r.raised
               THEN [@ EXCEPT !.pc = "except", !.failed_at = "date"]
               ELSE [@ EXCEPT !.pc = "add"]]
  /\ UNCHANGED <<vector_stores>>
  /\ UnchangedTables
  /\ UnchangedRun

\* 3-2: new_chunks_metadata = vector_stores[language].add_documents(chunks)
update_web_data_add(p) ==
  /\ At(p, "update_web_data", "add")
  /\ \E ok \in Faults :
       LET u == unit[p]
           r == add_documents(vector_stores[u.language], u.chunks, NoIds,
                              "None", FreshUuids(Len(u.chunks)), ok)
       IN /\ vector_stores' = [vector_stores EXCEPT ![u.language] = r.store]
          /\ unit' = [unit EXCEPT ![p] =
               IF r.ok
               THEN [u EXCEPT !.pc = "insert_rows",
                              !.new_chunks_metadata = r.info,
                              !.bound = @ \cup {"new_chunks_metadata"}]
               ELSE [u EXCEPT !.pc = "except", !.failed_at = "add"]]
  /\ UNCHANGED session
  /\ UnchangedTables
  /\ UnchangedRun

\* 3-3: mysql_manager.insert_web_page_chunks(session, new_chunks_metadata)
update_web_data_insert_rows(p) ==
  /\ At(p, "update_web_data", "insert_rows")
  /\ unit[p].source \notin OtherWebSources(p)
  /\ \E ok \in Faults :
       LET r == insert_web_page_chunks(p, unit[p].new_chunks_metadata, ok)
       IN /\ session' = [session EXCEPT ![p] = r.s]
          /\ unit' = [unit EXCEPT ![p] =
               IF r.raised
               THEN [@ EXCEPT !.pc = "except", !.failed_at = "insert_rows"]
               ELSE [@ EXCEPT !.pc = "commit"]]
  /\ UNCHANGED <<vector_stores>>
  /\ UnchangedTables
  /\ UnchangedRun

\* Step 4: session.commit(); return new_chunks_metadata
update_web_data_commit(p) ==
  /\ At(p, "update_web_data", "commit")
  /\ Commit(p)

\* except Exception: session.rollback(), then the compensation block.
update_web_data_except(p) ==
  /\ At(p, "update_web_data", "except")
  /\ session' = [session EXCEPT ![p] = NoDelta]
  /\ unit' = [unit EXCEPT ![p] =
       [@ EXCEPT !.pc = "undo_new", !.sess = Append(@, "rollback")]]
  /\ UNCHANGED <<vector_stores>>
  /\ UnchangedTables
  /\ UnchangedRun

\* Compensation, first half: if new_chunks_metadata is bound, delete the new
\* ids; a failure leaves the try block (the old chunks are not restored).
update_web_data_undo_new(p) ==
  /\ At(p, "update_web_data", "undo_new")
  /\ \E ok \in Faults :
       LET u == unit[p]
           has_new == "new_chunks_metadata" \in u.bound
       IN /\ vector_stores' =
               IF has_new /\ ok
               THEN [vector_stores EXCEPT ![u.language] =
                       vs_delete(@, InfoIds(u.new_chunks_metadata))]
               ELSE vector_stores
          /\ unit' = [unit EXCEPT ![p] =
               IF ~has_new THEN [u EXCEPT !.pc = "undo_old"]
               ELSE IF ok THEN [u EXCEPT !.pc = "undo_old", !.undo = "ok"]
               ELSE [u EXCEPT !.pc = "finally", !.undo = "failed",
                              !.result = "RuntimeError"]]
  /\ UNCHANGED <<session>>
  /\ UnchangedTables
  /\ UnchangedRun

\* Compensation, second half: `if old_documents:` (a NameError when the
\* local is unbound, caught and printed) re-adds the snapshot under the old
\* ids; then raise RuntimeError.
update_web_data_undo_old(p) ==
  /\ At(p, "update_web_data", "undo_old")
  /\ \E ok \in Faults :
       LET u == unit[p]
           restore == "old_documents" \in u.bound /\ u.old_documents # <<>>
           r == add_documents(vector_stores[u.language], u.old_documents,
                              GivenIds(u.old_chunk_ids), "None", <<>>, ok)
       IN /\ vector_stores' =
               IF restore
               THEN [vector_stores EXCEPT ![u.language] = r.store]
               ELSE vector_stores
          /\ unit' = [unit EXCEPT ![p] =
               [u EXCEPT !.pc = "finally", !.result = "RuntimeError",
                         !.undo = IF ~restore THEN @
                                  ELSE IF r.ok THEN "ok" ELSE "failed"]]
  /\ UNCHANGED <<session>>
  /\ UnchangedTables
  /\ UnchangedRun

update_web_data_finally(p) ==
  /\ At(p, "update_web_data", "finally")
  /\ Finally(p)

\* ------------------------------- DataAgent.delete_web_content_and_metadata
delete_web_content_and_metadata_begin(p) ==
  /\ MayStart(p, "web")
  /\ \E srcs \in (SUBSET UnitSources) \ {{}}, lang \in UnitLangs :
       Begin(p, [Opened EXCEPT
                   !.op = "delete_web_content_and_metadata", !.pc = "get_ids",
                   !.sources = SeqOfSources(srcs), !.language = lang])

\* 1-1: old_chunk_ids = mysql_manager.get_web_page_chunk_ids_by_sources(session, sources)
delete_web_content_and_metadata_get_ids(p) ==
  /\ At(p, "delete_web_content_and_metadata", "get_ids")
  /\ \E ok \in Faults :
       unit' = [unit EXCEPT ![p] =
         [@ EXCEPT !.pc = "snapshot",
                   !.old_chunk_ids = get_web_page_chunk_ids_by_sources(p, unit[p].sources, ok),
                   !.bound = @ \cup {"old_chunk_ids"}]]
  /\ UNCHANGED <<vector_stores, session>>
  /\ UnchangedTables
  /\ UnchangedRun

\* 1-2: old_documents = vector_stores[language].get_documents_by_ids(ids)
delete_web_content_and_metadata_snapshot(p) ==
  /\ At(p, "delete_web_content_and_metadata", "snapshot")
  /\ \E ok \in Faults :
       unit' = [unit EXCEPT ![p] =
         IF ok
         THEN [@ EXCEPT !.pc = "delete_rows",
                        !.old_documents =
                           get_documents_by_ids(vector_stores[unit[p].language],
                                                unit[p].old_chunk_ids),
                        !.bound = @ \cup {"old_documents"}]
         ELSE [@ EXCEPT !.pc = "except", !.failed_at = "snapshot"]]
  /\ UNCHANGED <<vector_stores, session>>
  /\ UnchangedTables
  /\ UnchangedRun

\* 2-1: mysql_manager.delete_web_page_chunks_by_ids(session, old_chunk_ids)
delete_web_content_and_metadata_delete_rows(p) ==
  /\ At(p, "delete_web_content_and_metadata", "delete_rows")
  /\ Range(unit[p].old_chunk_ids) \cap OtherWebChunkIds(p) = {}
  /\ \E ok \in Faults :
       LET r == delete_web_page_chunks_by_ids(p, unit[p].old_chunk_ids, ok)
       IN /\ session' = [session EXCEPT ![p] = r.s]
          /\ unit' = [unit EXCEPT ![p] = [@ EXCEPT !.pc = "delete_pages"]]
  /\ UNCHANGED <<vector_stores>>
  /\ UnchangedTables
  /\ UnchangedRun

\* 2-2: mysql_manager.delete_web_pages_by_sources(session, sources)
delete_web_content_and_metadata_delete_pages(p) ==
  /\ At(p, "delete_web_content_and_metadata", "delete_pages")
  /\ Range(unit[p].sources) \cap (OtherWebSources(p) \cup OtherWebChunkSources(p)) = {}
  /\ \E ok \in Faults :
       LET r == delete_web_pages_by_sources(p, unit[p].sources, ok)
       IN /\ session' = [session EXCEPT ![p] = r.s]
          /\ unit' = [unit EXCEPT ![p] =
               IF r.raised
               THEN [@ EXCEPT !.pc = "except", !.failed_at = "delete_pages"]
               ELSE [@ EXCEPT !.pc = "delete_vectors"]]
  /\ UNCHANGED <<vector_stores>>
  /\ UnchangedTables
  /\ UnchangedRun

\* 2-3: vector_stores[language].delete(ids=old_chunk_ids)
delete_web_content_and_metadata_delete_vectors(p) ==
  /\ At(p, "delete_web_content_and_metadata", "delete_vectors")
  /\ \E ok \in Faults :
       LET u == unit[p]
       IN /\ vector_stores' =
               IF ok
               THEN [vector_stores EXCEPT ![u.language] =
                       vs_delete(@, u.old_chunk_ids)]
               ELSE vector_stores
          /\ unit' = [unit EXCEPT ![p] =
               IF ok THEN [u EXCEPT !.pc = "commit"]
               ELSE [u EXCEPT !.pc = "except",
                              !.failed_at = "delete_vectors"]]
  /\ UNCHANGED <<session>>
  /\ UnchangedTables
  /\ UnchangedRun

\* Step 3: session.commit()
delete_web_content_and_metadata_commit(p) ==
  /\ At(p, "delete_web_content_and_metadata", "commit")
  /\ Commit(p)

\* except Exception: session.rollback(), then the compensation block.
delete_web_content_and_metadata_except(p) ==
  /\ At(p, "delete_web_content_and_metadata", "except")
  /\ session' = [session EXCEPT ![p] = NoDelta]
  /\ unit' = [unit EXCEPT ![p] =
       [@ EXCEPT !.pc = "undo", !.sess = Append(@, "rollback")]]
  /\ UNCHANGED <<vector_stores>>
  /\ UnchangedTables
  /\ UnchangedRun

\* Compensation: `if old_documents:` (a NameError when the local is unbound,
\* caught and printed) re-adds the snapshot under the old ids; then raise
\* RuntimeError.
delete_web_content_and_metadata_undo(p) ==
  /\ At(p, "delete_web_content_and_metadata", "undo")
  /\ \E ok \in Faults :
       LET u == unit[p]
           restore == "old_documents" \in u.bound /\ u.old_documents # <<>>
           r == add_documents(vector_stores[u.language], u.old_documents,
                              GivenIds(u.old_chunk_ids), "None", <<>>, ok)
       IN /\ vector_stores' =
               IF restore
               THEN [vector_stores EXCEPT ![u.language] = r.store]
               ELSE vector_stores
          /\ unit' = [unit EXCEPT ![p] =
               [u EXCEPT !.pc = "finally", !.result = "RuntimeError",
                         !.undo = IF ~restore THEN @
                                  ELSE IF r.ok THEN "ok" ELSE "failed"]]
  /\ UNCHANGED <<session>>
  /\ UnchangedTables
  /\ UnchangedRun

delete_web_content_and_metadata_finally(p) ==
  /\ At(p, "delete_web_content_and_metadata", "finally")
  /\ Finally(p)

\* ------------------------------- DataAgent.delete_file_content_and_metadata
delete_file_content_and_metadata_begin(p) ==
  /\ MayStart(p, "file")
  /\ \E f \in Files, pgs \in (SUBSET UnitPages) \ {{}}, lang \in UnitLangs :
       LET ps == SelectSeq(PageOrder, LAMBDA x : x \in pgs)
       IN Begin(p, [Opened EXCEPT
                      !.op = "delete_file_content_and_metadata", !.pc = "get_ids",
                      !.sources_and_pages =
                         [k \in 1..Len(ps) |-> <<f, Str(ps[k])>>],
                      !.language = lang])

\* 1-1: old_chunk_ids = mysql_manager.get_file_page_chunk_ids(session, sources_and_pages)
delete_file_content_and_metadata_get_ids(p) ==
  /\ At(p, "delete_file_content_and_metadata", "get_ids")
  /\ \E ok \in Faults :
       unit' = [unit EXCEPT ![p] =
         [@ EXCEPT !.pc = "snapshot",
                   !.old_chunk_ids = get_file_page_chunk_ids(p, unit[p].sources_and_pages, ok),
                   !.bound = @ \cup {"old_chunk_ids"}]]
  /\ UNCHANGED <<vector_stores, session>>
  /\ UnchangedTables
  /\ UnchangedRun

\* 1-2: old_documents = vector_stores[language].get_documents_by_ids(ids)
delete_file_content_and_metadata_snapshot(p) ==
  /\ At(p, "delete_file_content_and_metadata", "snapshot")
  /\ \E ok \in Faults :
       unit' = [unit EXCEPT ![p] =
         IF ok
         THEN [@ EXCEPT !.pc = "delete_rows",
                        !.old_documents =
                           get_documents_by_ids(vector_stores[unit[p].language],
                                                unit[p].old_chunk_ids),
                        !.bound = @ \cup {"old_documents"}]
         ELSE [@ EXCEPT !.pc = "except", !.failed_at = "snapshot"]]
  /\ UNCHANGED <<vector_stores, session>>
  /\ UnchangedTables
  /\ UnchangedRun

\* 2-1: mysql_manager.delete_file_page_chunks_by_ids(session, old_chunk_ids)
delete_file_content_and_metadata_delete_rows(p) ==
  /\ At(p, "delete_file_content_and_metadata", "delete_rows")
  /\ Range(unit[p].old_chunk_ids) \cap OtherFileChunkIds(p) = {}
  /\ \E ok \in Faults :
       LET r == delete_file_page_chunks_by_ids(p, unit[p].old_chunk_ids, ok)
       IN /\ session' = [session EXCEPT ![p] = r.s]
          /\ unit' = [unit EXCEPT ![p] = [@ EXCEPT !.pc = "delete_pages"]]
  /\ UNCHANGED <<vector_stores>>
  /\ UnchangedTables
  /\ UnchangedRun

\* 2-2: mysql_manager.delete_file_pages_by_sources_and_pages(session, sources_and_pages)
delete_file_content_and_metadata_delete_pages(p) ==
  /\ At(p, "delete_file_content_and_metadata", "delete_pages")
  /\ Range(unit[p].sources_and_pages) \cap (OtherFileKeys(p) \cup OtherFileChunkKeys(p)) = {}
  /\ \E ok \in Faults :
       LET r == delete_file_pages_by_sources_and_pages(p, unit[p].sources_and_pages, ok)
       IN /\ session' = [session EXCEPT ![p] = r.s]
          /\ unit' = [unit EXCEPT ![p] =
               IF r.raised
               THEN [@ EXCEPT !.pc = "except", !.failed_at = "delete_pages"]
               ELSE [@ EXCEPT !.pc = "delete_vectors"]]
  /\ UNCHANGED <<vector_stores>>
  /\ UnchangedTables
  /\ UnchangedRun

\* 2-3: vector_stores[language].delete(ids=old_chunk_ids)
delete_file_content_and_metadata_delete_vectors(p) ==
  /\ At(p, "delete_file_content_and_metadata", "delete_vectors")
  /\ \E ok \in Faults :
       LET u == unit[p]
       IN /\ vector_stores' =
               IF ok
               THEN [vector_stores EXCEPT ![u.language] =
                       vs_delete(@, u.old_chunk_ids)]
               ELSE vector_stores
          /\ unit' = [unit EXCEPT ![p] =
               IF ok THEN [u EXCEPT !.pc = "commit"]
               ELSE [u EXCEPT !.pc = "except",
                              !.failed_at = "delete_vectors"]]
  /\ UNCHANGED <<session>>
  /\ UnchangedTables
  /\ UnchangedRun

\* Step 3: session.commit()
delete_file_content_and_metadata_commit(p) ==
  /\ At(p, "delete_file_content_and_metadata", "commit")
  /\ Commit(p)

\* except Exception: session.rollback(), then the compensation block.
delete_file_content_and_metadata_except(p) ==
  /\ At(p, "delete_file_content_and_metadata", "except")
  /\ session' = [session EXCEPT ![p] = NoDelta]
  /\ unit' = [unit EXCEPT ![p] =
       [@ EXCEPT !.pc = "undo", !.sess = Append(@, "rollback")]]
  /\ UNCHANGED <<vector_stores>>
  /\ UnchangedTables
  /\ UnchangedRun

\* Compensation: `if old_documents:` (a NameError when the local is unbound,
\* caught and printed) re-adds the snapshot under the old ids; then raise
\* RuntimeError.
delete_file_content_and_metadata_undo(p) ==
  /\ At(p, "delete_file_content_and_metadata", "undo")
  /\ \E ok \in Faults :
       LET u == unit[p]
           restore == "old_documents" \in u.bound /\ u.old_documents # <<>>
           r == add_documents(vector_stores[u.language], u.old_documents,
                              GivenIds(u.old_chunk_ids), "page", <<>>, ok)
       IN /\ vector_stores' =
               IF restore
               THEN [vector_stores EXCEPT ![u.language] = r.store]
               ELSE vector_stores
          /\ unit' = [unit EXCEPT ![p] =
               [u EXCEPT !.pc = "finally", !.result = "RuntimeError",
                         !.undo = IF ~restore THEN @
                                  ELSE IF r.ok THEN "ok" ELSE "failed"]]
  /\ UNCHANGED <<session>>
  /\ UnchangedTables
  /\ UnchangedRun

delete_file_content_and_metadata_finally(p) ==
  /\ At(p, "delete_file_content_and_metadata", "finally")
  /\ Finally(p)

\* ------------------------------------------------------------------- clock
\* datetime.now() advances between units of work.
Tick ==
  /\ now < MaxTime
  /\ \A q \in Procs : Resting(q)
  /\ crawl.pc = "idle"
  /\ now' = now + 1
  /\ UNCHANGED <<vector_stores, web_page, web_page_chunk, file_page,
                 file_page_chunk, session, unit, pre, nunits, inject,
                 concurrent, kind, scraper, crawl, site, probe>>

\* -------------------------------------------------------------------- URLs
\* A URL is the sequence of its characters; the URLs of the model are
\* lower-case, on which str.lower() changes nothing.
Letters == {"a", "b", "c", "d", "e", "f", "g", "h", "i", "j", "k", "l", "m",
            "n", "o", "p", "q", "r", "s", "t", "u", "v", "w", "x", "y", "z"}
Digits == {"0", "1", "2", "3", "4", "5", "6", "7", "8", "9"}
SchemeChars == Letters \cup Digits \cup {"+", "-", "."}

\* str.find over a set of characters, 1-based: the index of the first
\* character of s that is in cs, Len(s) + 1 when there is none.
find(s, cs) ==
  IF \E i \in 1..Len(s) : s[i] \in cs
  THEN CHOOSE i \in 1..Len(s) :
         s[i] \in cs /\ \A j \in 1..(i - 1) : s[j] \notin cs
  ELSE Len(s) + 1

\* The characters of s before and after index i.
Before(s, i) == SubSeq(s, 1, i - 1)
After(s, i) == SubSeq(s, i + 1, Len(s))

\* str.startswith
startswith(s, prefix) ==
  Len(prefix) <= Len(s) /\ SubSeq(s, 1, Len(prefix)) = prefix

\* str.strip(c)
strip(s, c) ==
  LET keep == {i \in 1..Len(s) : s[i] # c}
  IN IF keep = {} THEN <<>>
     ELSE SubSeq(s, CHOOSE i \in keep : \A j \in keep : i <= j,
                    CHOOSE i \in keep : \A j \in keep : i >= j)

\* str.split(c): the pieces between the occurrences of c; [''] for ''.
RECURSIVE split(_, _)
split(s, c) ==
  LET i == find(s, {c})
  IN IF i > Len(s) THEN <<s>>
     ELSE <<Before(s, i)>> \o split(After(s, i), c)

\* urllib.parse.urlparse: scheme up to the first ':', netloc after '//' up
\* to the next '/', '?' or '#', then fragment after the first '#', query
\* after the first '?', and the path.
urlparse(url) ==
  LET c == find(url, {":"})
      has_scheme == /\ 1 < c
                    /\ c <= Len(url)
                    /\ url[1] \in Letters
                    /\ \A j \in 1..(c - 1) : url[j] \in SchemeChars
      r1 == IF has_scheme THEN After(url, c) ELSE url
      has_netloc == Len(r1) >= 2 /\ r1[1] = "/" /\ r1[2] = "/"
      r2 == After(r1, 2)
      d == find(r2, {"/", "?", "#"})
      r3 == IF has_netloc THEN SubSeq(r2, d, Len(r2)) ELSE r1
      h == find(r3, {"#"})
      r4 == Before(r3, h)
      q == find(r4, {"?"})
  IN [scheme |-> IF has_scheme THEN Before(url, c) ELSE <<>>,
      netloc |-> IF has_netloc THEN Before(r2, d) ELSE <<>>,
      path |-> Before(r4, q),
      query |-> After(r4, q),
      fragment |-> After(r3, h)]

\* WebScraper._exclude_keywords
_exclude_keywords ==
  {<<"a", "b", "o", "u", "t">>,
   <<"a", "b", "o", "u", "t", "-", "u", "s">>,
   <<"c", "o", "n", "t", "a", "c", "t">>,
   <<"c", "o", "n", "t", "a", "c", "t", "-", "u", "s">>,
   <<"h", "e", "l", "p">>,
   <<"h", "e", "l", "p", "-", "c", "e", "n", "t", "r", "e">>,
   <<"h", "e", "l", "p", "-", "c", "e", "n", "t", "e", "r">>,
   <<"c", "a", "r", "e", "e", "r">>,
   <<"c", "a", "r", "e", "e", "r", "s">>,
   <<"j", "o", "b">>,
   <<"j", "o", "b", "s">>,
   <<"p", "r", "i", "v", "a", "c", "y">>,
   <<"t", "e", "r", "m", "s">>,
   <<"p", "o", "l", "i", "c", "y">>,
   <<"f", "a", "q">>,
   <<"s", "u", "p", "p", "o", "r", "t">>,
   <<"l", "o", "g", "i", "n">>,
   <<"r", "e", "g", "i", "s", "t", "e", "r">>,
   <<"s", "i", "g", "n", "u", "p">>,
   <<"s", "i", "g", "n", "-", "u", "p">>,
   <<"s", "u", "b", "s", "c", "r", "i", "b", "e">>,
   <<"u", "n", "s", "u", "b", "s", "c", "r", "i", "b", "e">>,
   <<"d", "o", "n", "a", "t", "e">>,
   <<"s", "h", "o", "p">>,
   <<"s", "t", "o", "r", "e">>,
   <<"c", "a", "r", "t">>,
   <<"c", "h", "e", "c", "k", "o", "u", "t">>,
   <<"s", "e", "a", "r", "c", "h">>,
   <<"e", "v", "e", "n", "t", "s">>,
   <<"p", "r", "o", "g", "r", "a", "m", "m", "e", "s">>}

\* WebScraper._is_valid_url
_is_valid_url(url) ==
  LET parsed == urlparse(url)
  IN parsed.netloc # <<>> /\ parsed.scheme # <<>>

\* A sub-URL test that lets the root's own path pass.
_is_valid_suburl_or_same(root_url_parsed, child_url_parsed) ==
  IF root_url_parsed.netloc # child_url_parsed.netloc THEN FALSE
  ELSE IF ~startswith(child_url_parsed.path, root_url_parsed.path) THEN FALSE
  ELSE IF child_url_parsed.fragment # <<>> \/ child_url_parsed.query # <<>>
  THEN FALSE
  ELSE TRUE

\* A sub-URL test that does not compare the network locations.
_is_valid_suburl_any_netloc(root_url_parsed, child_url_parsed) ==
  /\ startswith(child_url_parsed.path, root_url_parsed.path)
  /\ child_url_parsed.fragment = <<>>
  /\ child_url_parsed.query = <<>>
  /\ child_url_parsed.path # root_url_parsed.path

\* WebScraper._is_valid_suburl
_is_valid_suburl(root_url_parsed, child_url_parsed) ==
  IF root_url_parsed.netloc # child_url_parsed.netloc THEN FALSE
  ELSE IF ~startswith(child_url_parsed.path, root_url_parsed.path) THEN FALSE
  ELSE IF child_url_parsed.fragment # <<>> \/ child_url_parsed.query # <<>>
  THEN FALSE
  ELSE IF child_url_parsed.path = root_url_parsed.path THEN FALSE
  ELSE TRUE

\* An exclusion test that excludes nothing.
_should_exclude_nothing(child_url_parsed) == FALSE

\* WebScraper._should_exclude
_should_exclude(child_url_parsed) ==
  LET path_segments == split(strip(child_url_parsed.path, "/"), "/")
  IN Len(path_segments) > 0 /\ path_segments[1] \in _exclude_keywords

\* The URLs the predicates are asked about: https://<netloc><path>, then
\* ?<query> and #<fragment> when there is one, the path made of up to MaxSegs
\* segments.
Https == <<"h", "t", "t", "p", "s", ":", "/", "/">>
XOrg == <<"x", ".", "o", "r", "g">>
YOrg == <<"y", ".", "o", "r", "g">>
Segments == {<<"a">>, <<"b">>, <<"c">>, <<"b", "c">>}
Queries == {<<>>, <<"q", "=", "1">>}
Fragments == {<<>>, <<"f", "r", "a", "g">>}

RECURSIVE PathsOf(_)
PathsOf(k) ==
  IF k = 0 THEN {<<>>}
  ELSE {p \o <<"/">> \o s : p \in PathsOf(k - 1), s \in Segments}

Paths(n) == {<<"/">>} \cup UNION {PathsOf(k) : k \in 0..n}

urlunparse(parts) ==
  Https \o parts.netloc \o parts.path
    \o (IF parts.query = <<>> THEN <<>> ELSE <<"?">> \o parts.query)
    \o (IF parts.fragment = <<>> THEN <<>> ELSE <<"#">> \o parts.fragment)

RootParts ==
  {[netloc |-> XOrg, path |-> p, query |-> <<>>, fragment |-> <<>>] :
   p \in Paths(MaxRootSegs)}
ChildParts ==
  {[netloc |-> n, path |-> p, query |-> q, fragment |-> f] :
   n \in {XOrg, YOrg}, p \in Paths(MaxSegs), q \in Queries, f \in Fragments}

NoProbe == [pc |-> "none", root |-> <<>>, child |-> <<>>, root_url |-> <<>>,
            child_url |-> <<>>, answer |-> FALSE]

\* scrape asks _is_valid_suburl about the parsed current and neighbor URLs.
call_is_valid_suburl ==
  /\ probe.pc = "ready"
  /\ probe' = [probe EXCEPT
                 !.pc = "answered",
                 !.answer = _is_valid_suburl(urlparse(probe.root_url),
                                             urlparse(probe.child_url))]
  /\ UNCHANGED <<vector_stores, web_page, web_page_chunk, file_page,
                 file_page_chunk, session, unit, pre, now, nunits, inject,
                 concurrent, kind, scraper, crawl, site>>

\* ----------------------------------------------------------------- the site
\* https://x.org/
U_root ==
  <<"h", "t", "t", "p", "s", ":", "/", "/", "x", ".", "o", "r", "g", "/">>
\* https://x.org/a
U_a ==
  <<"h", "t", "t", "p", "s", ":", "/", "/", "x", ".", "o", "r", "g", "/",
    "a">>
\* https://x.org/a/b
U_ab ==
  <<"h", "t", "t", "p", "s", ":", "/", "/", "x", ".", "o", "r", "g", "/",
    "a", "/", "b">>
\* https://x.org/a/b/c
U_abc ==
  <<"h", "t", "t", "p", "s", ":", "/", "/", "x", ".", "o", "r", "g", "/",
    "a", "/", "b", "/", "c">>
\* https://x.org/a/b#frag
U_ab_frag ==
  <<"h", "t", "t", "p", "s", ":", "/", "/", "x", ".", "o", "r", "g", "/",
    "a", "/", "b", "#", "f", "r", "a", "g">>
\* https://x.org/a/b?q=1
U_ab_q ==
  <<"h", "t", "t", "p", "s", ":", "/", "/", "x", ".", "o", "r", "g", "/",
    "a", "/", "b", "?", "q", "=", "1">>
\* https://x.org/about
U_about ==
  <<"h", "t", "t", "p", "s", ":", "/", "/", "x", ".", "o", "r", "g", "/",
    "a", "b", "o", "u", "t">>
\* https://x.org/about/a
U_about_a ==
  <<"h", "t", "t", "p", "s", ":", "/", "/", "x", ".", "o", "r", "g", "/",
    "a", "b", "o", "u", "t", "/", "a">>
\* https://y.org/a/b
U_y ==
  <<"h", "t", "t", "p", "s", ":", "/", "/", "y", ".", "o", "r", "g", "/",
    "a", "/", "b">>
\* mailto:x
U_mail == <<"m", "a", "i", "l", "t", "o", ":", "x">>
Pages == {U_root, U_a, U_ab, U_abc, U_ab_frag, U_ab_q, U_about, U_about_a,
          U_y, U_mail}
RootUrls == {U_root, U_a, U_about}

\* ------------------------------------------------------ file downloads
\* str.lower() of the ASCII letters.
UpperCase == <<"A", "B", "C", "D", "E", "F", "G", "H", "I", "J", "K", "L", "M",
              "N", "O", "P", "Q", "R", "S", "T", "U", "V", "W", "X", "Y", "Z">>
LowerCase == <<"a", "b", "c", "d", "e", "f", "g", "h", "i", "j", "k", "l", "m",
              "n", "o", "p", "q", "r", "s", "t", "u", "v", "w", "x", "y", "z">>

lower(s) ==
  [i \in 1..Len(s) |->
     IF \E k \in 1..Len(UpperCase) : UpperCase[k] = s[i]
     THEN LowerCase[CHOOSE k \in 1..Len(UpperCase) : UpperCase[k] = s[i]]
     ELSE s[i]]

\* str.endswith
endswith(s, suffix) ==
  /\ Len(suffix) <= Len(s)
  /\ SubSeq(s, Len(s) - Len(suffix) + 1, Len(s)) = suffix

\* os.path.basename: what follows the last '/'.
basename(path) ==
  LET slashes == {i \in 1..Len(path) : path[i] = "/"}
  IN IF slashes = {} THEN path
     ELSE After(path, CHOOSE i \in slashes : \A j \in slashes : j <= i)

\* os.path.join of two components.
path_join(dir, name) ==
  IF name # <<>> /\ name[1] = "/" THEN name
  ELSE IF dir = <<>> \/ dir[Len(dir)] = "/" THEN dir \o name
  ELSE dir \o <<"/">> \o name

\* file_extensions of _detect_and_download_files
file_extensions ==
  {<<".", "p", "d", "f">>, <<".", "x", "l", "s", "x">>, <<".", "x", "l", "s">>}

\* self.dir, the download directory
DownloadDir == <<"d">>

\* https://y.org/f/r.pdf
F_r ==
  <<"h", "t", "t", "p", "s", ":", "/", "/", "y", ".", "o", "r", "g", "/",
    "f", "/", "r", ".", "p", "d", "f">>
\* https://y.org/g/r.pdf
F_r_too ==
  <<"h", "t", "t", "p", "s", ":", "/", "/", "y", ".", "o", "r", "g", "/",
    "g", "/", "r", ".", "p", "d", "f">>
\* https://y.org/t.XLS
F_t ==
  <<"h", "t", "t", "p", "s", ":", "/", "/", "y", ".", "o", "r", "g", "/",
    "t", ".", "X", "L", "S">>

\* The files the download directory may hold when the scraper is made.
Existing == {path_join(DownloadDir, basename(F_r))}

\* A download that writes and lists the file whether it is held or not.
_download_file_again(downloaded_files, file_url, ok) ==
  LET local_filename == path_join(DownloadDir, basename(file_url))
  IN IF ok
     THEN [file_path |-> local_filename,
           downloaded_files |-> downloaded_files \cup {local_filename}]
     ELSE [file_path |-> <<>>, downloaded_files |-> downloaded_files]

\* WebScraper._download_file: None (the empty path) for a destination that
\* is in downloaded_files and for a failed request; ok = the request and the
\* write succeed.
_download_file(downloaded_files, file_url, ok) ==
  LET local_filename == path_join(DownloadDir, basename(file_url))
  IN IF local_filename \in downloaded_files
     THEN [file_path |-> <<>>, downloaded_files |-> downloaded_files]
     ELSE IF ok
     THEN [file_path |-> local_filename,
           downloaded_files |-> downloaded_files \cup {local_filename}]
     ELSE [file_path |-> <<>>, downloaded_files |-> downloaded_files]

\* WebScraper._detect_and_download_files over the hrefs from index k on;
\* oks[i] = the download of href i succeeds.
RECURSIVE _detect_and_download_files(_, _, _, _, _)
_detect_and_download_files(hrefs, oks, k, downloaded_files, newly) ==
  IF k > Len(hrefs)
  THEN [newly_downloaded_files |-> newly,
        downloaded_files |-> downloaded_files]
  ELSE IF \E ext \in file_extensions : endswith(lower(hrefs[k]), ext)
  THEN LET r == _download_file(downloaded_files, hrefs[k], oks[k])
       IN _detect_and_download_files(
            hrefs, oks, k + 1, r.downloaded_files,
            IF Truthy(r.file_path) THEN Append(newly, r.file_path)
            ELSE newly)
  ELSE _detect_and_download_files(hrefs, oks, k + 1, downloaded_files, newly)

\* The hrefs of a page, in document order, as urljoin resolves them; the
\* hrefs of the site are absolute, which urljoin returns as they are.
Links(u) ==
  IF u = U_root THEN <<U_about, U_a, U_mail, U_y, U_ab, F_r, F_t>>
  ELSE IF u = U_a THEN <<U_ab, U_a, U_root, U_ab_q, U_abc, F_r_too, F_r>>
  ELSE IF u = U_ab THEN <<U_abc, U_ab_frag, U_about_a>>
  ELSE IF u = U_about THEN <<U_about_a>>
  ELSE <<>>

\* A site whose pages in `failing` answer requests.get with an error status.
Site(failing) ==
  [u \in Pages |-> [status_ok |-> u \notin failing, links |-> Links(u)]]
Sites == {Site({}), Site({U_a})}
NoSite == Site(Pages)

\* The URLs a ledger loaded from scraped_urls.txt may hold.
Ledgered == {U_root, U_a}

\* ----------------------------------------------------- WebScraper.scrape
\* (popped: the URLs dequeued so far, in order; the code keeps no such list.)
NoCrawl == [pc |-> "idle", url |-> <<>>, max_pages |-> 0,
            refresh_frequency |-> NoFreq, language |-> "en",
            queue |-> <<>>, visited |-> {}, docs |-> <<>>,
            pages_scraped |-> 0, considered |-> {}, due |-> FALSE,
            history |-> <<>>, autodownload |-> FALSE,
            newly_downloaded_files |-> <<>>, popped |-> <<>>]

\* A loop over the hrefs that does not look a neighbor up in visited.
RECURSIVE enqueue_links_revisiting(_, _, _, _)
enqueue_links_revisiting(links, current_url_parsed, queue, visited) ==
  IF links = <<>> THEN [queue |-> queue, visited |-> visited]
  ELSE LET nei_url == Head(links)
           nei_url_parsed == urlparse(nei_url)
           skip == \/ ~_is_valid_url(nei_url)
                   \/ ~_is_valid_suburl(current_url_parsed, nei_url_parsed)
                   \/ _should_exclude(nei_url_parsed)
       IN IF skip
          THEN enqueue_links_revisiting(Tail(links), current_url_parsed,
                                        queue, visited)
          ELSE enqueue_links_revisiting(Tail(links), current_url_parsed,
                                        Append(queue, nei_url),
                                        visited \cup {nei_url})

\* A loop over the hrefs that puts a neighbor at the front of the queue.
RECURSIVE enqueue_links_front(_, _, _, _)
enqueue_links_front(links, current_url_parsed, queue, visited) ==
  IF links = <<>> THEN [queue |-> queue, visited |-> visited]
  ELSE LET nei_url == Head(links)
           nei_url_parsed == urlparse(nei_url)
           skip == \/ ~_is_valid_url(nei_url)
                   \/ nei_url \in visited
                   \/ ~_is_valid_suburl(current_url_parsed, nei_url_parsed)
                   \/ _should_exclude(nei_url_parsed)
       IN IF skip
          THEN enqueue_links_front(Tail(links), current_url_parsed, queue,
                                   visited)
          ELSE enqueue_links_front(Tail(links), current_url_parsed,
                                   <<nei_url>> \o queue,
                                   visited \cup {nei_url})

\* The loop over the hrefs of the current page: a neighbor is enqueued and
\* marked visited unless one of the four tests skips it.
RECURSIVE enqueue_links(_, _, _, _)
enqueue_links(links, current_url_parsed, queue, visited) ==
  IF links = <<>> THEN [queue |-> queue, visited |-> visited]
  ELSE LET nei_url == Head(links)
           nei_url_parsed == urlparse(nei_url)
           skip == \/ ~_is_valid_url(nei_url)
                   \/ nei_url \in visited
                   \/ ~_is_valid_suburl(current_url_parsed, nei_url_parsed)
                   \/ _should_exclude(nei_url_parsed)
       IN IF skip
          THEN enqueue_links(Tail(links), current_url_parsed, queue, visited)
          ELSE enqueue_links(Tail(links), current_url_parsed,
                             Append(queue, nei_url), visited \cup {nei_url})

\* What a finished process_url call leaves in the history of calls.
Returned(raised, num_documents, inserted) ==
  [url |-> crawl.url, max_pages |-> crawl.max_pages, due |-> crawl.due,
   raised |-> raised, num_documents |-> num_documents, inserted |-> inserted]

\* process_url, Step 1: scraper.scrape(url, max_pages) starts with the root
\* in the queue and in visited.  (due: a stored row is refresh-due now.)
process_url_begin ==
  /\ crawl.pc = "idle"
  /\ Len(crawl.history) < MaxCalls
  /\ \A q \in Procs : Resting(q)
  /\ \E url \in RootUrls, max_pages \in 1..MaxPages, freq \in Freqs,
        autodownload \in BOOLEAN :
       crawl' = [crawl EXCEPT
                   !.pc = "loop", !.url = url, !.max_pages = max_pages,
                   !.autodownload = autodownload,
                   !.newly_downloaded_files = <<>>,
                   !.refresh_frequency = freq, !.language = "en",
                   !.queue = <<url>>, !.visited = {url}, !.docs = <<>>,
                   !.pages_scraped = 0, !.considered = {},
                   !.popped = <<>>,
                   !.due = \E r \in BagToSet(web_page) : is_refresh_needed(r)]
  /\ UNCHANGED <<vector_stores, web_page, web_page_chunk, file_page,
                 file_page_chunk, session, unit, pre, now, nunits, inject,
                 concurrent, kind, scraper, site, probe>>

\* The hrefs that end in a file extension, by index.
FileHrefs(hrefs) ==
  {k \in 1..Len(hrefs) :
     \E ext \in file_extensions : endswith(lower(hrefs[k]), ext)}

\* One turn of `while queue and pages_scraped < max_pages`: pop the current
\* URL, _langchain_load_url (None for '' and for a URL of the ledger; a
\* loaded URL joins the ledger; an error of the loader leaves scrape and
\* process_url), requests.get (an error status: continue), the downloads
\* when autodownload is on (failing: the hrefs whose download fails), then
\* the loop over the hrefs.
scrape_loop ==
  /\ crawl.pc = "loop"
  /\ crawl.queue # <<>>
  /\ crawl.pages_scraped < crawl.max_pages
  /\ \E ok \in Faults,
        failing \in (IF inject
                     THEN SUBSET FileHrefs(site[Head(crawl.queue)].links)
                     ELSE {{}}) :
       LET current_url == Head(crawl.queue)
           skipped == current_url = <<>>
                        \/ current_url \in scraper.scraped_urls
           doc == IF skipped THEN <<>>
                  ELSE <<[source |-> current_url, page |-> NoPage]>>
           response == site[current_url]
           files ==
             IF response.status_ok /\ crawl.autodownload
             THEN _detect_and_download_files(
                    response.links,
                    [k \in 1..Len(response.links) |-> k \notin failing],
                    1, scraper.downloaded_files, <<>>)
             ELSE [newly_downloaded_files |-> <<>>,
                   downloaded_files |-> scraper.downloaded_files]
           moved == IF response.status_ok
                    THEN enqueue_links(response.links, urlparse(current_url),
                                       Tail(crawl.queue), crawl.visited)
                    ELSE [queue |-> Tail(crawl.queue),
                          visited |-> crawl.visited]
       IN IF ~skipped /\ ~ok
          THEN /\ crawl' = [crawl EXCEPT
                              !.pc = "idle",
                              !.popped = Append(@, current_url),
                              !.history = Append(@, Returned(TRUE, 0, FALSE))]
               /\ UNCHANGED scraper
          ELSE /\ crawl' = [crawl EXCEPT
                              !.popped = Append(@, current_url),
                              !.docs = @ \o doc,
                              !.pages_scraped = @ + Len(doc),
                              !.queue = moved.queue,
                              !.visited = moved.visited,
                              !.newly_downloaded_files =
                                 @ \o files.newly_downloaded_files,
                              !.considered =
                                 IF response.status_ok
                                 THEN @ \cup Range(response.links) ELSE @]
               /\ scraper' = [scraper EXCEPT
                                !.scraped_urls =
                                   IF skipped THEN @
                                   ELSE @ \cup {current_url},
                                !.downloaded_files = files.downloaded_files]
  /\ UNCHANGED <<vector_stores, web_page, web_page_chunk, file_page,
                 file_page_chunk, session, unit, pre, now, nunits, inject,
                 concurrent, kind, site, probe>>

\* A categorizer that files every checked document as new.
_categorize_web_documents_all_new(p, docs, n_checked) ==
  [new_docs |-> SubSeq(docs, 1, n_checked), expired_docs |-> <<>>,
   up_to_date_docs |-> <<>>]

\* DataAgent._categorize_web_documents, in a session of its own: the first
\* n_checked documents are looked up by checksum before an error, which is
\* printed, ends the loop.
_categorize_web_documents(p, docs, n_checked) ==
  LET checked == SubSeq(docs, 1, n_checked)
      existing_page(d) == check_web_page_exists(p, d.source)
  IN [new_docs |->
        SelectSeq(checked, LAMBDA d : existing_page(d) = {}),
      expired_docs |->
        SelectSeq(checked, LAMBDA d :
          \E r \in existing_page(d) : is_refresh_needed(r)),
      up_to_date_docs |->
        SelectSeq(checked, LAMBDA d :
          \E r \in existing_page(d) : ~is_refresh_needed(r))]

\* DataAgent.extract_metadata: one entry per document that has a source.
extract_metadata(docs, refresh_frequency, language) ==
  LET with_source == SelectSeq(docs, LAMBDA d : Truthy(d.source))
  IN [k \in 1..Len(with_source) |->
        [source |-> with_source[k].source,
         refresh_frequency |-> refresh_frequency, language |-> language]]

\* process_url, Steps 2-6: scrape has returned; categorize; without new
\* pages return (0, 0); else extract the metadata, clean, split and call
\* insert_web_data.
process_url_categorize ==
  /\ crawl.pc = "loop"
  /\ ~(crawl.queue # <<>> /\ crawl.pages_scraped < crawl.max_pages)
  /\ \E ok \in Faults, n \in UnitChunks :
       \E n_checked \in (IF ok \/ crawl.docs = <<>> THEN {Len(crawl.docs)}
                         ELSE 0..(Len(crawl.docs) - 1)) :
         LET new_web_pages ==
               _categorize_web_documents(1, crawl.docs, n_checked).new_docs
         IN IF new_web_pages = <<>>
            THEN /\ crawl' = [crawl EXCEPT
                                !.pc = "idle",
                                !.history =
                                   Append(@, Returned(FALSE, 0, FALSE))]
                 /\ UNCHANGED <<unit, pre, session>>
            ELSE /\ crawl' = [crawl EXCEPT !.pc = "inserting"]
                 /\ unit' = [unit EXCEPT ![1] =
                      [Opened EXCEPT
                         !.op = "insert_web_data", !.pc = "add",
                         !.docs_metadata =
                            extract_metadata(new_web_pages,
                                             crawl.refresh_frequency,
                                             crawl.language),
                         !.chunks = ChunksOf(new_web_pages, n, FALSE),
                         !.language = crawl.language,
                         !.caller = "process_url"]]
                 /\ pre' = [pre EXCEPT ![1] = Stores]
                 /\ session' = [session EXCEPT ![1] = NoDelta]
  /\ UNCHANGED <<vector_stores, web_page, web_page_chunk, file_page,
                 file_page_chunk, now, nunits, inject, concurrent, kind,
                 scraper, site, probe>>

\* WebScraper.fetch_active_urls_from_db: the ledger becomes the active URLs
\* of the metadata store (get_active_urls answers set() on an error).
fetch_active_urls_from_db(p, ok) == IF ok THEN get_active_urls(p) ELSE {}

\* process_url after insert_web_data: a RuntimeError is printed; len(None)
\* of a call that returned None is a TypeError that leaves process_url; else
\* the ledger is fetched again and (len(web_pages), 0) returned.
process_url_return ==
  /\ crawl.pc = "inserting"
  /\ unit[1].pc = "done"
  /\ unit[1].caller = "process_url"
  /\ \E ok \in Faults :
       LET raised == unit[1].result = "returned_none"
       IN /\ scraper' = [scraper EXCEPT
                           !.scraped_urls =
                              IF raised THEN @
                              ELSE fetch_active_urls_from_db(1, ok)]
          /\ crawl' = [crawl EXCEPT
                         !.pc = "idle",
                         !.history =
                            Append(@, Returned(raised,
                                               IF raised THEN 0
                                               ELSE Len(crawl.docs), TRUE))]
  /\ UNCHANGED <<vector_stores, web_page, web_page_chunk, file_page,
                 file_page_chunk, session, unit, pre, now, nunits, inject,
                 concurrent, kind, site, probe>>

\* ------------------------------------------------- calls on stored pages
\* A call on the stored pages that has not been made yet.
PagesProbe(call, docs, page) ==
  [pc |-> "ready", call |-> call, docs |-> docs, page |-> page,
   answer |-> <<>>]

\* DataAgent._categorize_web_documents(docs): a lookup may raise.
call_categorize_web_documents ==
  /\ probe.pc = "ready"
  /\ probe.call = "_categorize_web_documents"
  /\ \E ok \in Faults :
       \E n_checked \in (IF ok \/ probe.docs = <<>> THEN {Len(probe.docs)}
                         ELSE 0..(Len(probe.docs) - 1)) :
         probe' = [probe EXCEPT
                     !.pc = "answered",
                     !.answer =
                        _categorize_web_documents(1, probe.docs, n_checked)]
  /\ UNCHANGED <<vector_stores, web_page, web_page_chunk, file_page,
                 file_page_chunk, session, unit, pre, now, nunits, inject,
                 concurrent, kind, scraper, crawl, site>>

\* web_page.is_refresh_needed() of a stored page.
call_is_refresh_needed ==
  /\ probe.pc = "ready"
  /\ probe.call = "is_refresh_needed"
  /\ probe' = [probe EXCEPT !.pc = "answered",
                            !.answer = is_refresh_needed(probe.page)]
  /\ UNCHANGED <<vector_stores, web_page, web_page_chunk, file_page,
                 file_page_chunk, session, unit, pre, now, nunits, inject,
                 concurrent, kind, scraper, crawl, site>>

\* MySQLManager.get_active_urls(session): set() on an SQLAlchemyError.
call_get_active_urls ==
  /\ probe.pc = "ready"
  /\ probe.call = "get_active_urls"
  /\ \E ok \in Faults :
       probe' = [probe EXCEPT
                   !.pc = "answered",
                   !.answer = IF ok THEN get_active_urls(1) ELSE {}]
  /\ UNCHANGED <<vector_stores, web_page, web_page_chunk, file_page,
                 file_page_chunk, session, unit, pre, now, nunits, inject,
                 concurrent, kind, scraper, crawl, site>>

\* vector_stores['en'].add_documents(documents, secondary_key=...) without
\* ids: the uuids are generated.
call_add_documents ==
  /\ probe.pc = "ready"
  /\ probe.call = "add_documents"
  /\ \E ok \in Faults :
       LET r == add_documents(vector_stores["en"], probe.docs, NoIds,
                              probe.secondary_key,
                              FreshUuids(Len(probe.docs)), ok)
       IN /\ vector_stores' = [vector_stores EXCEPT !["en"] = r.store]
          /\ probe' = [probe EXCEPT
                         !.pc = IF r.ok THEN "returned" ELSE "raised",
                         !.answer = r.info]
  /\ UNCHANGED <<web_page, web_page_chunk, file_page, file_page_chunk,
                 session, unit, pre, now, nunits, inject, concurrent, kind,
                 scraper, crawl, site>>

\* ------------------------------------------- process_file on a file path
\* os.path.splitext(path)[1]: from the last '.' of the last component that
\* has a character other than '.' before it.
splitext_ext(path) ==
  LET b == basename(path)
      dots == {i \in 1..Len(b) :
                 b[i] = "." /\ \E j \in 1..(i - 1) : b[j] # "."}
  IN IF dots = {} THEN <<>>
     ELSE SubSeq(b, CHOOSE i \in dots : \A j \in dots : j <= i, Len(b))

\* d/r.pdf
P_pdf == <<"d", "/", "r", ".", "p", "d", "f">>
\* d/r.PDF
P_PDF == <<"d", "/", "r", ".", "P", "D", "F">>
\* d/r.xlsx
P_xlsx == <<"d", "/", "r", ".", "x", "l", "s", "x">>
\* d/r.txt
P_txt == <<"d", "/", "r", ".", "t", "x", "t">>
\* d.pdf/r
P_none == <<"d", ".", "p", "d", "f", "/", "r">>
\* d/.pdf
P_hidden == <<"d", "/", ".", "p", "d", "f">>
FilePaths == {P_pdf, P_PDF, P_xlsx, P_txt, P_none, P_hidden}

\* DataAgent._parse_file(filepath, language): exists = os.path.exists;
\* parser_ok = load_and_parse returns, with one document per page of pages.
_parse_file(filepath, language, exists, parser_ok, pages) ==
  LET file_ext == lower(splitext_ext(filepath))
      failed(e) == [raised |-> e, docs |-> <<>>, metadata |-> <<>>]
  IN IF ~exists THEN failed("FileNotFoundError")
     ELSE IF file_ext \notin {<<".", "p", "d", "f">>, <<".", "x", "l", "s">>,
                               <<".", "x", "l", "s", "x">>}
     THEN failed("ValueError")
     ELSE IF ~parser_ok THEN failed("RuntimeError")
     ELSE [raised |-> "none",
           docs |-> [k \in 1..Len(pages) |->
                       [source |-> filepath, page |-> pages[k]]],
           metadata |-> [k \in 1..Len(pages) |->
                           [source |-> filepath, page |-> Str(pages[k]),
                            language |-> language]]]

\* process_file(filepath, language), Steps 1-4 and the call of
\* insert_file_data: a file that exists in the database returns; an
\* exception of _parse_file is printed by the except clause of its type and
\* process_file returns None.
call_process_file ==
  /\ probe.pc = "ready"
  /\ probe.call = "process_file"
  /\ \E ok \in Faults, parser_ok \in BOOLEAN,
        pgs \in (SUBSET UnitPages) \ {{}}, n \in UnitChunks :
       LET existing_file == check_file_exists_by_source(1, probe.filepath)
           ps == SelectSeq(PageOrder, LAMBDA x : x \in pgs)
           r == _parse_file(probe.filepath, probe.language, probe.exists,
                            parser_ok, ps)
       IN IF ok /\ existing_file # {}
          THEN /\ probe' = [probe EXCEPT !.pc = "returned"]
               /\ UNCHANGED <<unit, pre, session>>
          ELSE IF r.raised # "none"
          THEN /\ probe' = [probe EXCEPT !.pc = "returned",
                                         !.parse_calls = @ + 1,
                                         !.printed = r.raised]
               /\ UNCHANGED <<unit, pre, session>>
          ELSE /\ probe' = [probe EXCEPT !.pc = "inserting",
                                         !.parse_calls = @ + 1]
               /\ unit' = [unit EXCEPT ![1] =
                    [Opened EXCEPT
                       !.op = "insert_file_data", !.pc = "add",
                       !.docs_metadata = r.metadata,
                       !.chunks = ChunksOf(r.docs, n, FALSE),
                       !.language = probe.language,
                       !.caller = "process_file"]]
               /\ pre' = [pre EXCEPT ![1] = Stores]
               /\ session' = [session EXCEPT ![1] = NoDelta]
  /\ UNCHANGED <<vector_stores, web_page, web_page_chunk, file_page,
                 file_page_chunk, now, nunits, inject, concurrent, kind,
                 scraper, crawl, site>>

\* process_file after insert_file_data: a RuntimeError is printed; len(None)
\* of a call that returned None is a TypeError, printed by except Exception.
process_file_return ==
  /\ probe.pc = "inserting"
  /\ probe.call = "process_file"
  /\ unit[1].pc = "done"
  /\ probe' = [probe EXCEPT
                 !.pc = "returned",
                 !.printed = IF unit[1].result = "RuntimeError"
                             THEN "RuntimeError"
                             ELSE IF unit[1].result = "returned_none"
                             THEN "TypeError" ELSE "none"]
  /\ UNCHANGED <<vector_stores, web_page, web_page_chunk, file_page,
                 file_page_chunk, session, unit, pre, now, nunits, inject,
                 concurrent, kind, scraper, crawl, site>>

\* ------------------------------------- DataAgent.delete_web_data_by_sources
\* MySQLManager.get_web_page_languages_by_sources(session, sources), called
\* with the positional arguments args: a call that does not bind both
\* parameters is a TypeError; else the listed sources that are stored, by
\* language (an SQLAlchemyError is printed and answered with empty lists).
get_web_page_languages_by_sources(args, ok) ==
  LET none == [l \in Langs |-> <<>>]
  IN IF Len(args) # 2 THEN [raised |-> "TypeError", languages_dict |-> none]
     ELSE IF args[2] = <<>> \/ ~ok
     THEN [raised |-> "none", languages_dict |-> none]
     ELSE [raised |-> "none",
           languages_dict |->
             [l \in Langs |->
                SelectSeq(args[2], LAMBDA src :
                  \E r \in BagToSet(web_page) :
                    r.source = src /\ r.language = l)]]

\* delete_web_data_by_sources(sources): the languages are looked up with
\* get_web_page_languages_by_sources(sources), the session argument left
\* out; the exception of that call leaves the function before the unit of
\* a language is started.
delete_web_data_by_sources ==
  /\ probe.pc = "ready"
  /\ probe.call = "delete_web_data_by_sources"
  /\ \E ok \in Faults :
       LET r == get_web_page_languages_by_sources(<<probe.sources>>, ok)
           en == r.languages_dict["en"]
       IN IF r.raised # "none"
          THEN /\ probe' = [probe EXCEPT !.pc = "raised",
                                         !.raised = r.raised]
               /\ UNCHANGED <<unit, pre>>
          ELSE IF en # <<>>
          THEN /\ probe' = [probe EXCEPT !.pc = "en",
                                         !.units = Append(@, "en")]
               /\ unit' = [unit EXCEPT ![1] =
                    [Opened EXCEPT
                       !.op = "delete_web_content_and_metadata",
                       !.pc = "get_ids", !.sources = en,
                       !.language = "en",
                       !.caller = "delete_web_data_by_sources"]]
               /\ pre' = [pre EXCEPT ![1] = Stores]
          ELSE /\ probe' = [probe EXCEPT !.pc = "zh"]
               /\ UNCHANGED <<unit, pre>>
  /\ UNCHANGED <<vector_stores, web_page, web_page_chunk, file_page,
                 file_page_chunk, session, now, nunits, inject, concurrent,
                 kind, scraper, crawl, site>>

\* ------------------------------------------- MySQLManager calls on a session
\* MySQLManager.insert_web_page(session, url, refresh_freq, language):
\* session.add(new_page); session.commit().  The commit makes the pending
\* changes of the session and the new row the committed tables; an
\* SQLAlchemyError (the checksum is UNIQUE) is rolled back and printed.
\* Result: [raised, s, tables].
insert_web_page(p, url, refresh_freq, language, ok) ==
  LET new_page == [source |-> url, checksum |-> sha256(url), date |-> now,
                   refresh_frequency |-> refresh_freq, language |-> language]
      duplicate == \E r \in BagToSet(v_web_page(p)) :
                     r.checksum = new_page.checksum
      tables == [web_page |-> web_page, web_page_chunk |-> web_page_chunk,
                 file_page |-> file_page,
                 file_page_chunk |-> file_page_chunk]
  IN IF ok /\ ~duplicate
     THEN [raised |-> FALSE, s |-> NoDelta,
           tables |-> [Committed(p) EXCEPT
                         !.web_page = @ (+) SetToBag({new_page})]]
     ELSE [raised |-> FALSE, s |-> NoDelta, tables |-> tables]

\* The (source, page) keys of file pages the calls are made with.
FileKeys == {<<f, pg>> : f \in {<<"f1">>, <<"f2">>}, pg \in {<<"1">>, <<"2">>}}
KeyOrder == <<(<<(<<"f1">>), (<<"1">>)>>), (<<(<<"f1">>), (<<"2">>)>>),
              (<<(<<"f2">>), (<<"1">>)>>), (<<(<<"f2">>), (<<"2">>)>>)>>
SeqOfKeys(K) == SelectSeq(KeyOrder, LAMBDA k : k \in K)

CrudOps == {"insert_web_page", "insert_web_pages", "insert_web_page_chunks",
            "update_web_pages_date", "delete_web_pages_by_sources",
            "delete_web_page_chunks_by_ids", "insert_file_pages",
            "insert_file_page_chunks",
            "delete_file_pages_by_sources_and_pages",
            "delete_file_page_chunks_by_ids"}

\* One call of a MySQLManager operation on session 1, with sources srcs or
\* file keys keys as its list argument (chunk ids are derived from them).
crud_call ==
  /\ probe.pc = "ready"
  /\ probe.call = "crud"
  /\ \E op \in CrudOps, ok \in Faults, srcs \in SUBSET Sources,
        keys \in SUBSET FileKeys, freq \in Freqs :
       LET sources == SeqOfSources(srcs)
           pairs == SeqOfKeys(keys)
           same == [web_page |-> web_page, web_page_chunk |-> web_page_chunk,
                    file_page |-> file_page,
                    file_page_chunk |-> file_page_chunk]
           keep(r) == [raised |-> r.raised, s |-> r.s, tables |-> same]
           r == CASE op = "insert_web_page" ->
                       insert_web_page(1, sources[1], freq, "en", ok)
                  [] op = "insert_web_pages" ->
                       keep(insert_web_pages(1,
                         [k \in 1..Len(sources) |->
                            [source |-> sources[k],
                             refresh_frequency |-> freq,
                             language |-> "en"]], ok))
                  [] op = "insert_web_page_chunks" ->
                       keep(insert_web_page_chunks(1,
                         [k \in 1..Len(sources) |->
                            [id |-> 2 + IngestedId(sources[k]),
                             source |-> sources[k]]], ok))
                  [] op = "update_web_pages_date" ->
                       keep(update_web_pages_date(1, sources, ok))
                  [] op = "delete_web_pages_by_sources" ->
                       keep(delete_web_pages_by_sources(1, sources, ok))
                  [] op = "delete_web_page_chunks_by_ids" ->
                       keep(delete_web_page_chunks_by_ids(1,
                         [k \in 1..Len(sources) |-> IngestedId(sources[k])],
                         ok))
                  [] op = "insert_file_pages" ->
                       keep(insert_file_pages(1,
                         [k \in 1..Len(pairs) |->
                            [source |-> pairs[k][1], page |-> pairs[k][2],
                             language |-> "en"]], ok))
                  [] op = "insert_file_page_chunks" ->
                       keep(insert_file_page_chunks(1,
                         [k \in 1..Len(pairs) |->
                            [id |-> 4 + k, source |-> pairs[k][1],
                             page |-> pairs[k][2]]], ok))
                  [] op = "delete_file_pages_by_sources_and_pages" ->
                       keep(delete_file_pages_by_sources_and_pages(1, pairs,
                                                                   ok))
                  [] OTHER ->
                       keep(delete_file_page_chunks_by_ids(1,
                         [k \in 1..Len(pairs) |-> 4 + k], ok))
       IN /\ op = "insert_web_page" => Cardinality(srcs) = 1
          /\ op \in {"insert_web_page", "insert_web_pages",
                     "insert_web_page_chunks", "update_web_pages_date",
                     "delete_web_pages_by_sources",
                     "delete_web_page_chunks_by_ids"} => keys = {}
          /\ op \notin {"insert_web_page", "insert_web_pages",
                        "insert_web_page_chunks", "update_web_pages_date",
                        "delete_web_pages_by_sources",
                        "delete_web_page_chunks_by_ids"} => srcs = {}
          /\ op # "insert_web_pages" /\ op # "insert_web_page"
               => freq = NoFreq
          /\ session' = [session EXCEPT ![1] = r.s]
          /\ web_page' = r.tables.web_page
          /\ web_page_chunk' = r.tables.web_page_chunk
          /\ file_page' = r.tables.file_page
          /\ file_page_chunk' = r.tables.file_page_chunk
          /\ probe' = [probe EXCEPT !.pc = "called", !.op = op,
                                    !.sources = sources, !.pairs = pairs,
                                    !.raised = r.raised]
  /\ UNCHANGED <<vector_stores, unit, pre, now, nunits, inject, concurrent,
                 kind, scraper, crawl, site>>

\* session.rollback() by the caller, before any commit of its own.
session_rollback ==
  /\ probe.pc = "called"
  /\ probe.call = "crud"
  /\ session' = [session EXCEPT ![1] = NoDelta]
  /\ probe' = [probe EXCEPT !.pc = "rolled_back"]
  /\ UNCHANGED <<vector_stores, web_page, web_page_chunk, file_page,
                 file_page_chunk, unit, pre, now, nunits, inject, concurrent,
                 kind, scraper, crawl, site>>

\* ----------------------------------------------------------- specification
InitStores ==
  /\ vector_stores = [l \in Langs |-> EmptyStore]
  /\ web_page = EmptyBag
  /\ web_page_chunk = {}
  /\ file_page = EmptyBag
  /\ file_page_chunk = {}
  /\ session = [p \in Procs |-> NoDelta]
  /\ unit = [p \in Procs |-> Idle]
  /\ pre = [p \in Procs |->
              [vector_stores |-> [l \in Langs |-> EmptyStore],
               web_page |-> EmptyBag, web_page_chunk |-> {},
               file_page |-> EmptyBag, file_page_chunk |-> {}]]
  /\ now = 0
  /\ nunits = 0
  /\ crawl = NoCrawl

\* Units of work run one after another; every store call may fail.
Init ==
  /\ InitStores
  /\ inject = TRUE
  /\ concurrent = FALSE
  /\ kind \in {"web", "file"}
  /\ scraper = [scraped_urls |-> {}, downloaded_files |-> {}]
  /\ site = NoSite
  /\ probe = NoProbe

UnitStep(p) ==
  \/ insert_web_data_begin(p)
  \/ insert_web_data_add(p)
  \/ insert_web_data_pages(p)
  \/ insert_web_data_chunks(p)
  \/ insert_web_data_commit(p)
  \/ insert_web_data_except(p)
  \/ insert_web_data_undo(p)
  \/ insert_web_data_finally(p)
  \/ insert_file_data_begin(p)
  \/ insert_file_data_add(p)
  \/ insert_file_data_pages(p)
  \/ insert_file_data_chunks(p)
  \/ insert_file_data_commit(p)
  \/ insert_file_data_except(p)
  \/ insert_file_data_finally(p)
  \/ process_file_begin(p)
  \/ process_file_exists(p)
  \/ process_file_parse(p)
  \/ update_web_data_begin(p)
  \/ update_web_data_get_ids(p)
  \/ update_web_data_get_language(p)
  \/ update_web_data_snapshot(p)
  \/ update_web_data_delete_rows(p)
  \/ update_web_data_delete_vectors(p)
  \/ update_web_data_date(p)
  \/ update_web_data_add(p)
  \/ update_web_data_insert_rows(p)
  \/ update_web_data_commit(p)
  \/ update_web_data_except(p)
  \/ update_web_data_undo_new(p)
  \/ update_web_data_undo_old(p)
  \/ update_web_data_finally(p)
  \/ delete_web_content_and_metadata_begin(p)
  \/ delete_web_content_and_metadata_get_ids(p)
  \/ delete_web_content_and_metadata_snapshot(p)
  \/ delete_web_content_and_metadata_delete_rows(p)
  \/ delete_web_content_and_metadata_delete_pages(p)
  \/ delete_web_content_and_metadata_delete_vectors(p)
  \/ delete_web_content_and_metadata_commit(p)
  \/ delete_web_content_and_metadata_except(p)
  \/ delete_web_content_and_metadata_undo(p)
  \/ delete_web_content_and_metadata_finally(p)
  \/ delete_file_content_and_metadata_begin(p)
  \/ delete_file_content_and_metadata_get_ids(p)
  \/ delete_file_content_and_metadata_snapshot(p)
  \/ delete_file_content_and_metadata_delete_rows(p)
  \/ delete_file_content_and_metadata_delete_pages(p)
  \/ delete_file_content_and_metadata_delete_vectors(p)
  \/ delete_file_content_and_metadata_commit(p)
  \/ delete_file_content_and_metadata_except(p)
  \/ delete_file_content_and_metadata_undo(p)
  \/ delete_file_content_and_metadata_finally(p)

Next ==
  \/ \E p \in Procs : UnitStep(p)
  \/ \E p \in Procs : insert_file_data_undo(p)
  \/ Tick

Spec == Init /\ [][Next]_vars

\* Units of work overlap; no store call fails.
InitConc ==
  /\ InitStores
  /\ inject = FALSE
  /\ concurrent = TRUE
  /\ kind \in {"web", "file"}
  /\ scraper = [scraped_urls |-> {}, downloaded_files |-> {}]
  /\ site = NoSite
  /\ probe = NoProbe

\* Without store faults insert_file_data has nothing to compensate: no
\* statement after its add_documents can fail, file_page having no unique
\* key and the chunk ids being new.
NextConc ==
  \/ \E p \in Procs : UnitStep(p)
  \/ Tick

SpecConc == InitConc /\ [][NextConc]_vars

\* -------------------------------------------------------------- properties
\* Units of work.
Done(p, ops) == unit[p].op \in ops /\ unit[p].pc = "done"

WebUnits == {"insert_web_data", "update_web_data",
             "delete_web_content_and_metadata"}
InsertUnits == {"insert_web_data", "insert_file_data"}
DeleteUnits == {"delete_web_content_and_metadata",
                "delete_file_content_and_metadata"}

\* The cross-store chunk invariant on stores st, for web documents: every id
\* held in a language partition has exactly one chunk row, and every chunk
\* row's id is held in the partition of its document's language.
WebCrossStore(st) ==
  /\ \A l \in Langs : \A i \in DOMAIN st.vector_stores[l] :
       Cardinality({r \in st.web_page_chunk : r.id = i}) = 1
  /\ \A r \in st.web_page_chunk : \A w \in BagToSet(st.web_page) :
       w.source = r.source => r.id \in DOMAIN st.vector_stores[w.language]

\* C1: in every state where no unit is in progress, reached by web units
\* that each ended committed or failed with their compensating vector calls
\* succeeding, every vector chunk id has exactly one chunk row and every
\* chunk row's id is in the partition of its document's language.  Stated
\* per unit: a unit that starts with the invariant and ends that way leaves
\* the invariant true.
C1_CrossStoreInvariant ==
  \A p \in Procs :
    (/\ Done(p, WebUnits)
     /\ unit[p].undo # "failed"
     /\ WebCrossStore(pre[p]))
    => WebCrossStore(Stores)

PageTablesAsBefore(p) ==
  /\ web_page = pre[p].web_page
  /\ file_page = pre[p].file_page

\* C2: an insert unit that added N chunks to the vector store and then
\* failed in a metadata insert or in the commit, with the compensating
\* delete succeeding, leaves none of the N ids retrievable, no Document row
\* and no chunk row of the batch committed, and raises an error.
C2_InsertCompensated ==
  \A p \in Procs :
    (/\ Done(p, InsertUnits)
     /\ unit[p].failed_at \in {"pages", "chunks", "commit"}
     /\ unit[p].undo = "ok")
    => /\ get_documents_by_ids(vector_stores[unit[p].language],
                               InfoIds(unit[p].chunks_metadata)) = <<>>
       /\ PageTablesAsBefore(p)
       /\ \A c \in Range(unit[p].chunks_metadata) :
            \A r \in web_page_chunk \cup file_page_chunk : r.id # c.id
       /\ unit[p].result = "RuntimeError"

C2_Witness ==
  \E p \in Procs :
    /\ Done(p, InsertUnits)
    /\ unit[p].failed_at = "commit"
    /\ unit[p].undo = "ok"
    /\ Len(unit[p].chunks_metadata) >= 2

\* C3: after an insert unit that returns its chunk list, every returned id
\* is held in the partition of the given language and has a committed chunk
\* row with the same source (and page), whose Document row is committed.
C3_InsertLinked ==
  \A p \in Procs :
    (Done(p, InsertUnits) /\ unit[p].result = "returned")
    => \A c \in Range(unit[p].chunks_metadata) :
         /\ c.id \in DOMAIN vector_stores[unit[p].language]
         /\ vector_stores[unit[p].language][c.id].source = c.source
         /\ IF unit[p].op = "insert_web_data"
            THEN /\ [id |-> c.id, source |-> c.source] \in web_page_chunk
                 /\ \E w \in BagToSet(web_page) : w.source = c.source
            ELSE /\ c \in file_page_chunk
                 /\ \E f \in BagToSet(file_page) :
                      f.source = c.source /\ f.page = c.page

C3_Witness ==
  \E p \in Procs :
    /\ Done(p, InsertUnits)
    /\ unit[p].result = "returned"
    /\ Len(unit[p].chunks_metadata) >= 2

\* C4: an update unit that fails at the vector delete of the old ids, the
\* date reset, the vector add, the insert of the new chunk rows or the
\* commit, with its compensating vector calls succeeding, leaves the vector
\* store holding exactly the pre-update ids with their snapshotted content
\* and none of the new ids, and the chunk rows and ingestion date as before.
C4_UpdateCompensated ==
  \A p \in Procs :
    (/\ Done(p, {"update_web_data"})
     /\ unit[p].failed_at \in {"delete_vectors", "date", "add",
                               "insert_rows", "commit"}
     /\ unit[p].undo # "failed")
    => /\ vector_stores = pre[p].vector_stores
       /\ web_page_chunk = pre[p].web_page_chunk
       /\ web_page = pre[p].web_page

C4_Witness ==
  \E p \in Procs :
    /\ Done(p, {"update_web_data"})
    /\ unit[p].failed_at = "commit"
    /\ unit[p].undo = "ok"
    /\ Len(unit[p].old_documents) >= 2
    /\ now > 0
    /\ \E w \in BagToSet(web_page) :
         w.source = unit[p].source /\ w.date < now

\* The snapshot of a delete unit is back: every old id that was held before
\* the unit is held again with the content it had.
SnapshotPresent(p) ==
  LET l == unit[p].language IN
    \A i \in Range(unit[p].old_chunk_ids) \cap DOMAIN pre[p].vector_stores[l] :
      /\ i \in DOMAIN vector_stores[l]
      /\ vector_stores[l][i] = pre[p].vector_stores[l][i]

TablesAsBefore(p) ==
  /\ web_page = pre[p].web_page
  /\ web_page_chunk = pre[p].web_page_chunk
  /\ file_page = pre[p].file_page
  /\ file_page_chunk = pre[p].file_page_chunk

DeleteFailed(p) ==
  /\ Done(p, DeleteUnits)
  /\ unit[p].failed_at \in {"delete_pages", "delete_vectors", "commit"}

\* C5 as stated: a delete unit that fails at the metadata row deletion, the
\* vector deletion or the commit leaves the snapshotted vectors present
\* under their original ids and the Document and chunk rows present, and
\* raises a RuntimeError.
C5_DeleteRestored_AsStated ==
  \A p \in Procs :
    DeleteFailed(p)
    => /\ SnapshotPresent(p)
       /\ TablesAsBefore(p)
       /\ unit[p].result = "RuntimeError"

\* C5 amended: the same, provided the compensating re-insert of the
\* snapshot, when one is attempted, succeeds.
C5_DeleteRestored ==
  \A p \in Procs :
    (DeleteFailed(p) /\ unit[p].undo # "failed")
    => /\ SnapshotPresent(p)
       /\ TablesAsBefore(p)
       /\ unit[p].result = "RuntimeError"

C5_Witness ==
  \E p \in Procs :
    /\ DeleteFailed(p)
    /\ unit[p].failed_at = "commit"
    /\ unit[p].undo = "ok"
    /\ Len(unit[p].old_documents) >= 2

\* process_url calls on a site, one at a time, no store call failing; the
\* ledger starts as the active URLs of the empty metadata store.
InitCrawl ==
  /\ InitStores
  /\ inject = FALSE
  /\ concurrent = FALSE
  /\ kind = "web"
  /\ scraper = [scraped_urls |-> {}, downloaded_files |-> {}]
  /\ site \in Sites
  /\ probe = NoProbe

\* Without store faults and with the categorizer dropping every stored page,
\* insert_web_data runs from its first step to its commit.
NextCrawl ==
  \/ process_url_begin
  \/ scrape_loop
  \/ process_url_categorize
  \/ insert_web_data_add(1)
  \/ insert_web_data_pages(1)
  \/ insert_web_data_chunks(1)
  \/ insert_web_data_commit(1)
  \/ insert_web_data_finally(1)
  \/ process_url_return
  \/ Tick

SpecCrawl == InitCrawl /\ [][NextCrawl]_vars

\* scrape alone, up to the hand-over of its documents to insert_web_data:
\* the ledger is what scraped_urls.txt held when the scraper was made.
InitScrape ==
  /\ InitStores
  /\ inject = FALSE
  /\ concurrent = FALSE
  /\ kind = "web"
  /\ scraper \in {[scraped_urls |-> l, downloaded_files |-> f] :
                    l \in SUBSET Ledgered, f \in SUBSET Existing}
  /\ site \in Sites
  /\ probe = NoProbe

NextScrape ==
  \/ process_url_begin
  \/ scrape_loop
  \/ process_url_categorize

SpecScrape == InitScrape /\ [][NextScrape]_vars

\* scrape alone, with the document loader and the metadata lookups failing
\* nondeterministically.
InitScrapeFaults ==
  /\ InitStores
  /\ inject = TRUE
  /\ concurrent = FALSE
  /\ kind = "web"
  /\ scraper \in {[scraped_urls |-> l, downloaded_files |-> f] :
                    l \in SUBSET Ledgered, f \in SUBSET Existing}
  /\ site \in Sites
  /\ probe = NoProbe

SpecScrapeFaults == InitScrapeFaults /\ [][NextScrape]_vars

\* Calls of _is_valid_suburl on the parsed texts of a root and a child URL.
InitUrl ==
  /\ InitStores
  /\ inject = FALSE
  /\ concurrent = FALSE
  /\ kind = "web"
  /\ scraper = [scraped_urls |-> {}, downloaded_files |-> {}]
  /\ site = NoSite
  /\ probe \in {[pc |-> "ready", root |-> r, child |-> c,
                  root_url |-> urlunparse(r), child_url |-> urlunparse(c),
                  answer |-> FALSE] : r \in RootParts, c \in ChildParts}

NextUrl == call_is_valid_suburl

SpecUrl == InitUrl /\ [][NextUrl]_vars

\* ------------------------------------------- overlapping units, crawler
\* No vector chunk of a web document without its Document row.
NoOrphanVectors ==
  \A l \in Langs : \A i \in DOMAIN vector_stores[l] :
    \E w \in BagToSet(web_page) : w.source = vector_stores[l][i].source

\* C6: when an update unit and a delete unit for the same source overlap,
\* their steps do not interleave, so that after both have finished the
\* cross-store chunk invariant holds and no vector chunk exists for a
\* Document whose row was deleted.  Both units started from the same stores,
\* which held the Document and satisfied the invariant.
C6_UpdateDeleteSerialized ==
  \A p, q \in Procs :
    (/\ Done(p, {"update_web_data"})
     /\ Done(q, {"delete_web_content_and_metadata"})
     /\ unit[p].source \in Range(unit[q].sources)
     /\ pre[p] = pre[q]
     /\ WebCrossStore(pre[p])
     /\ \E w \in BagToSet(pre[p].web_page) : w.source = unit[p].source)
    => /\ WebCrossStore(Stores)
       /\ NoOrphanVectors

\* The units run so far are one process_file call per process.
OnlyProcessFile ==
  /\ \A p \in Procs : Resting(p)
  /\ nunits = Cardinality({p \in Procs : unit[p].pc = "done"
                                          /\ unit[p].caller = "process_file"})

\* C7: after any sequence of process_file calls, overlapping ones included,
\* the metadata store holds at most one WebPage row per source and at most
\* one FilePage row per (source, page).
C7_UniqueDocuments ==
  OnlyProcessFile
  => /\ \A r \in BagToSet(web_page) :
          SumOver({x \in BagToSet(web_page) : x.source = r.source},
                  web_page) = 1
     /\ \A r \in BagToSet(file_page) :
          SumOver({x \in BagToSet(file_page) :
                     x.source = r.source /\ x.page = r.page}, file_page) = 1

\* Two process_url calls in a row on the same root URL with the same page
\* budget, both returning, no stored document refresh-due at the second.
Recrawls ==
  {i \in 1..(Len(crawl.history) - 1) :
     /\ crawl.history[i].url = crawl.history[i + 1].url
     /\ crawl.history[i].max_pages = crawl.history[i + 1].max_pages
     /\ ~crawl.history[i].raised
     /\ ~crawl.history[i + 1].raised
     /\ ~crawl.history[i + 1].due}

\* C8: the second of two process_url calls on the same root URL, the site
\* unchanged and no stored document refresh-due, returns a document count
\* of 0 and inserts into neither store.
C8_IdempotentRecrawl ==
  \A i \in Recrawls :
    /\ crawl.history[i + 1].num_documents = 0
    /\ ~crawl.history[i + 1].inserted

\* The character-wise statement of "prefixed by and strictly longer than".
StrictPrefix(short, long) ==
  /\ Len(short) < Len(long)
  /\ \A i \in 1..Len(short) : long[i] = short[i]

\* What _is_valid_suburl answered about a pair of URL texts.
Answered(root_url, child_url, answer) ==
  (probe.pc = "answered" /\ probe.root_url = root_url
     /\ probe.child_url = child_url)
  => probe.answer = answer

\* C9: _is_valid_suburl accepts a neighbor exactly when it has the network
\* location of the current page, a path prefixed by and strictly longer than
\* the current page's path, and neither fragment nor query; for current
\* https://x.org/a/b it accepts https://x.org/a/b/c and rejects
\* https://x.org/a, https://x.org/a/b#frag, https://x.org/a/b?q=1 and
\* https://x.org/a/b.
C9_SubUrlFilter ==
  /\ probe.pc = "answered"
     => (probe.answer
           <=> /\ probe.child.netloc = probe.root.netloc
               /\ StrictPrefix(probe.root.path, probe.child.path)
               /\ probe.child.fragment = <<>>
               /\ probe.child.query = <<>>)
  /\ Answered(U_ab, U_abc, TRUE)
  /\ Answered(U_ab, U_a, FALSE)
  /\ Answered(U_ab, U_ab_frag, FALSE)
  /\ Answered(U_ab, U_ab_q, FALSE)
  /\ Answered(U_ab, U_ab, FALSE)

C9_Witness ==
  /\ probe.pc = "answered"
  /\ probe.root_url = U_ab
  /\ probe.child_url = U_abc
  /\ probe.answer

\* The URLs of the site whose first path segment is the keyword 'about'.
AboutUrls == {U_about, U_about_a}

\* C10: during scrape no neighbor whose first path segment is an exclusion
\* keyword is enqueued, be it a sub-URL of the current page or not: the
\* queue and the visited set hold no such URL but the root the caller gave.
C10_KeywordNeverEnqueued ==
  \A u \in AboutUrls :
    u \in (Range(crawl.queue) \cup crawl.visited) => u = crawl.url

\* The root page linked https://x.org/about and https://x.org/a, and the
\* loop over its hrefs has enqueued the second.
C10_Witness ==
  /\ crawl.url = U_root
  /\ U_about \in crawl.considered
  /\ U_a \in crawl.visited

\* s is an initial part of t.
IsPrefix(s, t) == Len(s) <= Len(t) /\ SubSeq(t, 1, Len(s)) = s

\* A turn of the scrape loop: the loop is running before and after it.
LoopTurn ==
  /\ crawl.pc = "loop"
  /\ crawl'.pc = "loop"
  /\ crawl' # crawl

\* C11: scrape visits URLs in FIFO order from the root and returns at most
\* max_pages documents, and only a loaded page consumes the page budget: a
\* turn of the loop dequeues the head of the queue and appends behind the
\* rest; it adds either the document of the dequeued URL, counting one page,
\* or no document, counting none; the documents never exceed max_pages.
C11_BreadthFirstBudget ==
  [][/\ LoopTurn
        => /\ crawl.queue # <<>>
           /\ IsPrefix(Tail(crawl.queue), crawl'.queue)
           /\ \/ /\ crawl'.docs = crawl.docs
                 /\ crawl'.pages_scraped = crawl.pages_scraped
              \/ /\ crawl'.docs
                      = Append(crawl.docs, [source |-> Head(crawl.queue),
                                            page |-> NoPage])
                 /\ crawl'.pages_scraped = crawl.pages_scraped + 1
     /\ (crawl.pc = "idle" /\ crawl'.pc = "loop")
        => crawl'.queue = <<crawl'.url>> /\ crawl'.docs = <<>>
     /\ crawl'.pc # "idle"
        => /\ Len(crawl'.docs) <= crawl'.max_pages
           /\ crawl'.pages_scraped = Len(crawl'.docs)]_vars

\* The root, in the ledger, was dequeued without a document and its two
\* neighbors queued in link order; the first of them was then loaded and its
\* own neighbor queued behind the one that was waiting.
C11_Witness ==
  /\ crawl.url = U_root
  /\ crawl.max_pages = MaxPages
  /\ crawl.docs = <<[source |-> U_a, page |-> NoPage]>>
  /\ crawl.queue = <<U_ab, U_abc>>

\* C12: a URL that is in the ledger when it is dequeued is not loaded and is
\* a dead end: the turn that dequeues it adds no document and none of its
\* outbound links to the queue.
C12_LedgerDeadEnd ==
  [][(/\ LoopTurn
      /\ crawl.queue # <<>>
      /\ Head(crawl.queue) \in scraper.scraped_urls)
     => /\ crawl'.docs = crawl.docs
        /\ crawl'.queue = Tail(crawl.queue)
        /\ crawl'.visited = crawl.visited]_vars

\* C13: when fetching a dequeued URL fails, in the document load or in the
\* HTML request, the URL is dropped and the crawl continues: a turn of the
\* loop that starts with URLs queued and budget left keeps the loop running,
\* the documents collected so far and the rest of the queue.
C13_FetchFailureDropped ==
  [][(/\ crawl.pc = "loop"
      /\ crawl.queue # <<>>
      /\ crawl.pages_scraped < crawl.max_pages
      /\ crawl' # crawl)
     => /\ crawl'.pc = "loop"
        /\ IsPrefix(crawl.docs, crawl'.docs)
        /\ IsPrefix(Tail(crawl.queue), crawl'.queue)]_vars

\* A sequence without repeated elements.
NoDuplicates(q) == \A i, j \in 1..Len(q) : q[i] = q[j] => i = j

\* The paths a step adds to the list of newly downloaded files.
AddedFiles ==
  SubSeq(crawl'.newly_downloaded_files,
         Len(crawl.newly_downloaded_files) + 1,
         Len(crawl'.newly_downloaded_files))

\* C14: with autodownload on, a linked file whose destination is in the
\* downloaded set is not downloaded again and not listed: a step of a crawl
\* lists only destinations that were not in the set before it, each once,
\* and the set grows by exactly the listed ones (a failed download adds to
\* neither); the list has no duplicates; and a turn whose page is not loaded
\* anew, so that only downloads can fail in it, leaves the loop running.
C14_DownloadOnce ==
  [][crawl'.pc # "idle" /\ crawl.pc = "loop"
     => /\ IsPrefix(crawl.newly_downloaded_files,
                    crawl'.newly_downloaded_files)
        /\ Range(AddedFiles) \cap scraper.downloaded_files = {}
        /\ scraper'.downloaded_files
             = scraper.downloaded_files \cup Range(AddedFiles)
        /\ NoDuplicates(crawl'.newly_downloaded_files)
        /\ (crawl.queue # <<>>
              /\ Head(crawl.queue) \in scraper.scraped_urls
              /\ crawl.pages_scraped < crawl.max_pages)
           => crawl'.pc = "loop"]_vars

\* The download of https://y.org/f/r.pdf failed on the root page and listed
\* nothing; on the next page https://y.org/g/r.pdf was downloaded to the
\* same destination and the link to the first file, met again, was skipped.
C14_Witness ==
  /\ crawl.autodownload
  /\ crawl.url = U_root
  /\ Len(crawl.docs) = 2
  /\ crawl.newly_downloaded_files
       = <<path_join(DownloadDir, basename(F_t)),
           path_join(DownloadDir, basename(F_r_too))>>
  /\ basename(F_r) = basename(F_r_too)
  /\ basename(F_t) = <<"t", ".", "X", "L", "S">>


\* ---------------------------------------------------------- stored pages
\* A row of web_page as WebPage.__init__ and insert_web_pages write it, on
\* day date.
WebPageRow(source, date, refresh_frequency) ==
  [source |-> source, checksum |-> sha256(source), date |-> date,
   refresh_frequency |-> refresh_frequency, language |-> "en"]

PageFreqs == {NoFreq, 1, 7}

\* The tables web_page can hold on day today: at most one row per source
\* (checksum is UNIQUE), written on a day up to today.
StoredPages(today) ==
  {{WebPageRow(s, f[s].date, f[s].refresh_frequency) : s \in S} :
     S \in SUBSET Sources,
     f \in [Sources -> [date : 0..today, refresh_frequency : PageFreqs]]}

\* The documents scrape returns: pages of distinct URLs.
ScrapedDocs ==
  {<<>>} \cup {<<[source |-> s, page |-> NoPage]>> : s \in Sources}
         \cup {<<[source |-> st[1], page |-> NoPage],
                 [source |-> st[2], page |-> NoPage]>> :
               st \in {x \in Sources \X Sources : x[1] # x[2]}}

\* One call of the categorizer, of is_refresh_needed or of get_active_urls
\* on a metadata store that holds some pages.
InitPages ==
  /\ vector_stores = [l \in Langs |-> EmptyStore]
  /\ now \in 0..MaxDays
  /\ \E rows \in StoredPages(now) :
       /\ web_page = SetToBag(rows)
       /\ \/ \E docs \in ScrapedDocs :
               probe = PagesProbe("_categorize_web_documents", docs, <<>>)
          \/ \E page \in rows :
               probe = PagesProbe("is_refresh_needed", <<>>, page)
          \/ probe = PagesProbe("get_active_urls", <<>>, <<>>)
  /\ web_page_chunk = {}
  /\ file_page = EmptyBag
  /\ file_page_chunk = {}
  /\ session = [p \in Procs |-> NoDelta]
  /\ unit = [p \in Procs |-> Idle]
  /\ pre = [p \in Procs |->
              [vector_stores |-> [l \in Langs |-> EmptyStore],
               web_page |-> EmptyBag, web_page_chunk |-> {},
               file_page |-> EmptyBag, file_page_chunk |-> {}]]
  /\ nunits = 0
  /\ crawl = NoCrawl
  /\ inject \in BOOLEAN
  /\ concurrent = FALSE
  /\ kind = "web"
  /\ scraper = [scraped_urls |-> {}, downloaded_files |-> {}]
  /\ site = NoSite

NextPages ==
  \/ call_categorize_web_documents
  \/ call_is_refresh_needed
  \/ call_get_active_urls

SpecPages == InitPages /\ [][NextPages]_vars

Categorized == probe.pc = "answered"
                 /\ probe.call = "_categorize_web_documents"

\* The stored rows whose checksum is that of the document's source.
RowsOf(d) == {r \in BagToSet(web_page) : r.checksum = sha256(d.source)}

Due(r) == r.refresh_frequency # NoFreq
            /\ now >= r.date + r.refresh_frequency

Count(q, d) == Cardinality({i \in 1..Len(q) : q[i] = d})

\* C15: _categorize_web_documents partitions its input: every document is
\* in exactly one of new_docs, expired_docs, up_to_date_docs; it is new iff
\* no stored row has its source checksum, expired iff a row exists whose
\* refresh frequency is set and now >= date + frequency, up to date iff a
\* row exists and is not due.
C15_CategorizePartitions ==
  Categorized =>
    \A i \in 1..Len(probe.docs) :
      LET d == probe.docs[i]
          in_new == Count(probe.answer.new_docs, d)
          in_expired == Count(probe.answer.expired_docs, d)
          in_up_to_date == Count(probe.answer.up_to_date_docs, d)
      IN /\ in_new + in_expired + in_up_to_date = 1
         /\ in_new = 1 <=> RowsOf(d) = {}
         /\ in_expired = 1 <=> \E r \in RowsOf(d) : Due(r)
         /\ in_up_to_date = 1 <=> \E r \in RowsOf(d) : ~Due(r)

\* The partition when no lookup raises.
C15_CategorizePartitions_NoFault == ~inject => C15_CategorizePartitions


RefreshAsked == probe.pc = "answered" /\ probe.call = "is_refresh_needed"

\* Days since the page was written.
Age(r) == now - r.date

\* C16: is_refresh_needed is inclusive at the boundary: a page with refresh
\* frequency d is due exactly when now >= date + d days (with d = 7, due
\* at exactly 7 days and not due at 6 days), and a page with no refresh
\* frequency is never due.
C16_RefreshInclusive ==
  RefreshAsked =>
    LET r == probe.page
    IN /\ r.refresh_frequency = NoFreq => probe.answer = FALSE
       /\ r.refresh_frequency # NoFreq =>
            (probe.answer = TRUE <=> Age(r) >= r.refresh_frequency)
       /\ r.refresh_frequency = 7 /\ Age(r) = 7 => probe.answer = TRUE
       /\ r.refresh_frequency = 7 /\ Age(r) = 6 => probe.answer = FALSE

C16_Witness ==
  /\ RefreshAsked
  /\ probe.page.refresh_frequency = 7
  /\ Age(probe.page) = 7
  /\ probe.answer = TRUE


ActiveAsked == probe.pc = "answered" /\ probe.call = "get_active_urls"

\* C17: get_active_urls returns exactly the sources of the stored web_page
\* rows that are not due for refresh (no refresh frequency, or frequency
\* not yet elapsed): every such source, no due source, and the empty set
\* when no pages are stored.
C17_ActiveUrlsExact ==
  ActiveAsked =>
    /\ \A r \in BagToSet(web_page) : ~Due(r) => r.source \in probe.answer
    /\ \A u \in probe.answer :
         \E r \in BagToSet(web_page) : r.source = u /\ ~Due(r)
    /\ BagToSet(web_page) = {} => probe.answer = {}

\* The same when the query does not raise.
C17_ActiveUrlsExact_NoFault == ~inject => C17_ActiveUrlsExact


\* ------------------------------------------- adding to the vector store
\* Chunks as the text processor hands them over; a source or a page may be
\* missing.
Chunks ==
  [source : Sources \cup {<<>>},
   page : {NoPage, <<"int:0">>, <<"int:1">>}, text : {"t1"}]

RECURSIVE SeqsUpTo(_, _)
SeqsUpTo(S, n) ==
  IF n = 0 THEN {<<>>}
  ELSE LET shorter == SeqsUpTo(S, n - 1)
       IN shorter \cup {Append(q, x) : q \in shorter, x \in S}

StoredChunk(source) == [source |-> source, page |-> NoPage, text |-> "t2"]

\* What the collection may hold before the call.
HeldBefore ==
  {EmptyStore,
   (1 :> StoredChunk(<<"s1">>)),
   (2 :> StoredChunk(<<"s2">>)),
   (1 :> StoredChunk(<<"s1">>)) @@ (3 :> StoredChunk(<<"s1">>))}

\* One call of add_documents without ids on the collection of language en.
InitAdd ==
  /\ \E held \in HeldBefore :
       /\ vector_stores = [l \in Langs |->
                             IF l = "en" THEN held ELSE EmptyStore]
       /\ \E docs \in SeqsUpTo(Chunks, MaxChunks + 1),
             secondary_key \in {"None", "page"} :
            probe = [pc |-> "ready", call |-> "add_documents",
                     docs |-> docs, secondary_key |-> secondary_key,
                     held |-> held, answer |-> <<>>]
  /\ web_page = EmptyBag
  /\ web_page_chunk = {}
  /\ file_page = EmptyBag
  /\ file_page_chunk = {}
  /\ session = [p \in Procs |-> NoDelta]
  /\ unit = [p \in Procs |-> Idle]
  /\ pre = [p \in Procs |->
              [vector_stores |-> [l \in Langs |-> EmptyStore],
               web_page |-> EmptyBag, web_page_chunk |-> {},
               file_page |-> EmptyBag, file_page_chunk |-> {}]]
  /\ now = 0
  /\ nunits = 0
  /\ crawl = NoCrawl
  /\ inject \in BOOLEAN
  /\ concurrent = FALSE
  /\ kind = "web"
  /\ scraper = [scraped_urls |-> {}, downloaded_files |-> {}]
  /\ site = NoSite

NextAdd == call_add_documents

SpecAdd == InitAdd /\ [][NextAdd]_vars

AddCalled == probe.call = "add_documents" /\ probe.pc \in {"returned", "raised"}

\* C18: add_documents called without ids returns one entry per chunk, in
\* the order of the chunks, each with a newly generated id that differs
\* from every other id of the call and with the source of its chunk; when
\* a chunk has a missing or empty source the call fails and no chunk of the
\* call is written to the vector store.
C18_AddDocumentsFresh ==
  AddCalled =>
    LET docs == probe.docs
        info == probe.answer
        store == vector_stores["en"]
    IN /\ probe.pc = "returned" =>
            /\ Len(info) = Len(docs)
            /\ \A i \in 1..Len(docs) :
                 /\ info[i].source = docs[i].source
                 /\ info[i].id \notin DOMAIN probe.held
                 /\ info[i].id \in DOMAIN store
                 /\ store[info[i].id] = docs[i]
                 /\ \A j \in 1..Len(docs) : info[j].id = info[i].id => j = i
            /\ \A i \in DOMAIN probe.held : store[i] = probe.held[i]
       /\ (\E i \in 1..Len(docs) : docs[i].source = <<>>) =>
            /\ probe.pc = "raised"
            /\ store = probe.held

C18_Witness ==
  /\ AddCalled
  /\ probe.pc = "returned"
  /\ Len(probe.docs) = 2
  /\ probe.held # EmptyStore
  /\ probe.docs[1].source # probe.docs[2].source

C18_WitnessRejected ==
  /\ AddCalled
  /\ probe.pc = "raised"
  /\ Len(probe.docs) = 2
  /\ probe.docs[1].source # <<>>
  /\ probe.docs[2].source = <<>>
  /\ ~inject

\* The call was made with secondary_key = 'page', every chunk has a source
\* and the Chroma collection accepts the write.
PageKeyCall ==
  /\ AddCalled
  /\ probe.secondary_key = "page"
  /\ ~inject
  /\ \A i \in 1..Len(probe.docs) : probe.docs[i].source # <<>>

PageEntries ==
  /\ probe.pc = "returned"
  /\ Len(probe.answer) = Len(probe.docs)
  /\ \A i \in 1..Len(probe.docs) :
       probe.answer[i].page = Str(probe.docs[i].page)

\* C31: add_documents with secondary_key 'page' rejects a chunk only when
\* its page is None or the empty string; when every chunk has a page, the
\* page number 0 included, the call returns and each entry carries the
\* page of its chunk as a string; a chunk without a page makes the call
\* fail.
C31_PageKeyAccepted ==
  PageKeyCall =>
    IF \E i \in 1..Len(probe.docs) : probe.docs[i].page = NoPage
    THEN probe.pc = "raised"
    ELSE PageEntries

\* The same for calls in which no chunk has the page number 0.
C31_PageKeyAccepted_Nonzero ==
  (\A i \in 1..Len(probe.docs) : probe.docs[i].page # <<"int:0">>)
    => C31_PageKeyAccepted

\* A call with the page number 0 in one chunk is rejected.
C31_PageZeroRejected ==
  /\ PageKeyCall
  /\ Len(probe.docs) = 2
  /\ probe.docs[1].page = <<"int:1">>
  /\ probe.docs[2].page = <<"int:0">>
  /\ probe.pc = "raised"
  /\ vector_stores["en"] = probe.held


\* ------------------------------------------------ failures of a unit of work
\* The unit of p has handed add_documents a chunk without source, and the
\* call has failed.
ValidationFailed(p) ==
  /\ unit[p].op \in {"insert_web_data", "insert_file_data",
                     "update_web_data"}
  /\ unit[p].failed_at = "add"
  /\ \E i \in 1..Len(unit[p].chunks) : ~Truthy(unit[p].chunks[i].source)

Ended(p) == unit[p].pc \in {"finally", "done"}

\* The validation failure reaches the caller as an exception.
ValidationRaised ==
  \A p \in Procs :
    ValidationFailed(p) /\ Ended(p) => unit[p].result = "RuntimeError"

\* The stores are as they were when the unit started.
ValidationBeforeStores ==
  \A p \in Procs : ValidationFailed(p) => Stores = pre[p]

\* C19: a validation failure (a chunk with missing source) in a unit of
\* work is raised to the caller at once and ends the unit before the
\* vector store or the metadata store has been modified by the unit.
C19_ValidationAborts == ValidationRaised /\ ValidationBeforeStores


\* The chunks and the rows of the batch are in both stores, committed.
InsertWritten(p) ==
  LET u == unit[p]
  IN /\ u.committed
     /\ Len(u.chunks_metadata) = Len(u.chunks)
     /\ \A k \in 1..Len(u.chunks) :
          LET c == u.chunks_metadata[k]
          IN /\ c.id \in DOMAIN vector_stores[u.language]
             /\ vector_stores[u.language][c.id] = u.chunks[k]
             /\ \E r \in web_page_chunk \cup file_page_chunk : r.id = c.id
     /\ \A d \in Range(u.docs_metadata) :
          \E r \in BagToSet(web_page) \cup BagToSet(file_page) :
            r.source = d.source

\* C20: insert_web_data and insert_file_data raise an exception whenever a
\* part of the insertion fails, the first step (adding the chunks to the
\* vector store) included; they never return normally without both stores
\* written and committed.
C20_InsertRaisesOnFailure ==
  \A p \in Procs :
    Done(p, InsertUnits) =>
      /\ unit[p].failed_at # "none" => unit[p].result = "RuntimeError"
      /\ unit[p].result # "RuntimeError" => InsertWritten(p)

\* The same for the failures after the first step.
C20_InsertRaisesAfterAdd ==
  \A p \in Procs :
    Done(p, InsertUnits) /\ unit[p].failed_at # "add" =>
      /\ unit[p].failed_at # "none" => unit[p].result = "RuntimeError"
      /\ unit[p].result # "RuntimeError" => InsertWritten(p)


\* ------------------------------------------------------------ process_file
\* One call of process_file on a path that may or may not exist on disk;
\* the stores are empty.
InitFile ==
  /\ InitStores
  /\ inject \in BOOLEAN
  /\ concurrent = FALSE
  /\ kind = "file"
  /\ scraper = [scraped_urls |-> {}, downloaded_files |-> {}]
  /\ site = NoSite
  /\ \E filepath \in FilePaths, exists \in BOOLEAN, language \in Langs :
       probe = [pc |-> "ready", call |-> "process_file",
                filepath |-> filepath, exists |-> exists,
                language |-> language, parse_calls |-> 0,
                printed |-> "none", raised |-> "none"]

NextFile ==
  \/ call_process_file
  \/ insert_file_data_add(1)
  \/ insert_file_data_pages(1)
  \/ insert_file_data_chunks(1)
  \/ insert_file_data_commit(1)
  \/ insert_file_data_except(1)
  \/ insert_file_data_undo(1)
  \/ insert_file_data_finally(1)
  \/ process_file_return

SpecFile == InitFile /\ [][NextFile]_vars

ParseErrors == {"FileNotFoundError", "ValueError", "RuntimeError"}

\* process_file has returned after _parse_file raised.
ParseFailed ==
  /\ probe.call = "process_file"
  /\ probe.pc = "returned"
  /\ probe.parse_calls > 0
  /\ unit[1].op = "none"
  /\ probe.printed \in ParseErrors

\* C21: a parse failure in process_file (unsupported extension, missing
\* file, error raised by the parser) is raised to the caller of
\* process_file, and the parse is not tried again.
C21_ParseFailureRaised ==
  ParseFailed => probe.raised = probe.printed /\ probe.parse_calls = 1

\* The parse is made once.
C21_ParsedOnce ==
  probe.call = "process_file" => probe.parse_calls <= 1

\* The failures of _parse_file by kind of path.
C21_ParseFailureKinds ==
  ParseFailed =>
    /\ ~probe.exists => probe.printed = "FileNotFoundError"
    /\ probe.exists /\ probe.filepath \in {P_txt, P_none, P_hidden}
         => probe.printed = "ValueError"
    /\ probe.exists /\ probe.filepath \in {P_pdf, P_PDF, P_xlsx}
         => probe.printed = "RuntimeError"


\* ---------------------------------------------------- relational sessions
WriteUnits == InsertUnits \cup {"update_web_data"} \cup DeleteUnits

\* C22: the session an operation creates is used by that operation only
\* and is closed on every exit path, return and exception alike; a write
\* unit commits or rolls back its session before closing it.
C22_SessionScoped ==
  \A p \in Procs :
    LET u == unit[p]
    IN /\ u.op \in WriteUnits /\ u.pc = "done" =>
            /\ u.sess \in {<<"create", "commit", "close">>,
                           <<"create", "rollback", "close">>}
            /\ u.sess[2] = "commit" <=> u.committed
            /\ session[p] = NoDelta
       /\ u.op \in WriteUnits /\ u.pc # "done" =>
            u.sess \in {<<"create">>, <<"create", "commit">>,
                        <<"create", "rollback">>}
       /\ u.op = "process_file" =>
            /\ u.sess \in {<<>>, <<"create", "close">>}
            /\ u.pc = "done" => u.sess = <<"create", "close">>
            /\ session[p] = NoDelta
       /\ u.op = "none" => u.sess = <<>> /\ session[p] = NoDelta

C22_Witness ==
  \E p \in Procs :
    /\ unit[p].op = "update_web_data"
    /\ unit[p].pc = "done"
    /\ unit[p].failed_at = "commit"
    /\ unit[p].result = "RuntimeError"
    /\ unit[p].sess = <<"create", "rollback", "close">>


\* ------------------------------------------------------- batch of deletes
\* The stores after web pages were ingested: lang[s] is the language of the
\* page of source s, or "none" for a source that is not stored; each page
\* has one chunk, whose id is the rank of its source.
Ingested(lang) ==
  LET stored == {src \in Sources : lang[src] # "none"}
  IN [vector_stores |->
        [l \in Langs |->
           [i \in {IngestedId(src) : src \in {x \in stored : lang[x] = l}} |->
              [source |-> SourceOrder[i], page |-> NoPage, text |-> "t1"]]],
      web_page |->
        SetToBag({[source |-> src, checksum |-> sha256(src), date |-> 0,
                   refresh_frequency |-> NoFreq, language |-> lang[src]] :
                  src \in stored}),
      web_page_chunk |->
        {[id |-> IngestedId(src), source |-> src] : src \in stored}]

\* One call of delete_web_data_by_sources on stores that hold pages of
\* either language.
InitBatch ==
  /\ \E lang \in [Sources -> Langs \cup {"none"}] :
       /\ vector_stores = Ingested(lang).vector_stores
       /\ web_page = Ingested(lang).web_page
       /\ web_page_chunk = Ingested(lang).web_page_chunk
  /\ file_page = EmptyBag
  /\ file_page_chunk = {}
  /\ session = [p \in Procs |-> NoDelta]
  /\ unit = [p \in Procs |-> Idle]
  /\ pre = [p \in Procs |->
              [vector_stores |-> [l \in Langs |-> EmptyStore],
               web_page |-> EmptyBag, web_page_chunk |-> {},
               file_page |-> EmptyBag, file_page_chunk |-> {}]]
  /\ now \in 0..MaxTime
  /\ nunits = 0
  /\ crawl = NoCrawl
  /\ inject \in BOOLEAN
  /\ concurrent = FALSE
  /\ kind = "web"
  /\ scraper = [scraped_urls |-> {}, downloaded_files |-> {}]
  /\ site = NoSite
  /\ \E srcs \in SUBSET Sources :
       probe = [pc |-> "ready", call |-> "delete_web_data_by_sources",
                sources |-> SeqOfSources(srcs), units |-> <<>>,
                raised |-> "none"]

NextBatch == delete_web_data_by_sources

SpecBatch == InitBatch /\ [][NextBatch]_vars

\* The listed sources that are stored with language l.
ListedIn(l) ==
  {src \in Range(probe.sources) :
     \E r \in BagToSet(web_page) : r.source = src /\ r.language = l}

BatchEnded ==
  /\ probe.call = "delete_web_data_by_sources"
  /\ probe.pc \in {"returned", "raised"}

\* C23: a failed unit does not abort the batch: when
\* delete_web_data_by_sources has ended, the delete unit of language zh has
\* been run if sources of that language were listed, whatever became of the
\* unit of language en.
C23_BatchContinues ==
  BatchEnded /\ ListedIn("zh") # {} =>
    \E k \in 1..Len(probe.units) : probe.units[k] = "zh"


\* ------------------------------------------------------- crawler ledger
\* The sources of the committed rows of table that are not refresh-due.
ActiveSources(table) ==
  {r.source : r \in {x \in BagToSet(table) : ~Due(x)}}

\* A step in which a process_url call returns to its caller.
ProcessUrlReturns ==
  /\ crawl.pc # "idle"
  /\ crawl'.pc = "idle"
  /\ ~crawl'.history[Len(crawl'.history)].raised

\* C24: the ledger is fetched again from the active sources of the
\* metadata store after every ingestion unit run by process_url: when the
\* call returns, a URL is in the ledger if and only if it is the source of
\* a committed Document row that is not refresh-due.
C24_LedgerIsActiveSources ==
  [][ProcessUrlReturns =>
       scraper'.scraped_urls = ActiveSources(web_page')]_vars

\* The same for the calls that ran an ingestion unit.
C24_LedgerAfterInsert ==
  [][ProcessUrlReturns /\ crawl.pc = "inserting" =>
       scraper'.scraped_urls = ActiveSources(web_page')]_vars


\* ---------------------------------------------------- MySQLManager calls
\* Committed tables: web pages with or without a chunk row, file pages
\* without chunk rows, all written on day 0.
CrudTables(with_chunk, without_chunk, keys) ==
  [web_page |->
     SetToBag({[source |-> src, checksum |-> sha256(src), date |-> 0,
                refresh_frequency |-> NoFreq, language |-> "en"] :
               src \in with_chunk \cup without_chunk}),
   web_page_chunk |->
     {[id |-> IngestedId(src), source |-> src] : src \in with_chunk},
   file_page |->
     SetToBag({[source |-> k[1], page |-> k[2], date |-> 0,
                language |-> "en"] : k \in keys}),
   file_page_chunk |-> {}]

\* One MySQLManager call on a new session, then the caller's rollback.
InitCrud ==
  /\ vector_stores = [l \in Langs |-> EmptyStore]
  /\ \E with_chunk \in SUBSET Sources, keys \in SUBSET FileKeys :
       \E without_chunk \in SUBSET (Sources \ with_chunk) :
         LET t == CrudTables(with_chunk, without_chunk, keys)
         IN /\ web_page = t.web_page
            /\ web_page_chunk = t.web_page_chunk
            /\ file_page = t.file_page
            /\ file_page_chunk = t.file_page_chunk
            /\ probe = [pc |-> "ready", call |-> "crud", op |-> "none",
                        sources |-> <<>>, pairs |-> <<>>, raised |-> FALSE,
                        before |-> t]
  /\ session = [p \in Procs |-> NoDelta]
  /\ unit = [p \in Procs |-> Idle]
  /\ pre = [p \in Procs |->
              [vector_stores |-> [l \in Langs |-> EmptyStore],
               web_page |-> EmptyBag, web_page_chunk |-> {},
               file_page |-> EmptyBag, file_page_chunk |-> {}]]
  /\ now \in 0..MaxTime
  /\ nunits = 0
  /\ crawl = NoCrawl
  /\ inject \in BOOLEAN
  /\ concurrent = FALSE
  /\ kind = "web"
  /\ scraper = [scraped_urls |-> {}, downloaded_files |-> {}]
  /\ site = NoSite

NextCrud == crud_call \/ session_rollback

SpecCrud == InitCrud /\ [][NextCrud]_vars

Tables == [web_page |-> web_page, web_page_chunk |-> web_page_chunk,
           file_page |-> file_page, file_page_chunk |-> file_page_chunk]

\* What session 1 sees.
Seen == Committed(1)

RolledBack == probe.call = "crud" /\ probe.pc = "rolled_back"

\* C25: no MySQLManager operation commits the session it is given: a
\* rollback made by the caller before it commits undoes every row the
\* operation inserted, updated or deleted.
C25_CrudNeverCommits ==
  RolledBack => Tables = probe.before /\ Seen = probe.before

\* The same for the operations other than insert_web_page.
C25_BatchCrudNeverCommits ==
  RolledBack /\ probe.op # "insert_web_page" =>
    Tables = probe.before /\ Seen = probe.before

\* A batch insert that changed what the session sees and was rolled back.
C25_BatchRolledBack ==
  /\ RolledBack
  /\ probe.op = "insert_web_pages"
  /\ ~probe.raised
  /\ Len(probe.sources) = 2
  /\ BagToSet(probe.before.web_page) = {}


\* A batch delete has returned without raising.
Deleted(op) ==
  /\ probe.call = "crud"
  /\ probe.pc = "called"
  /\ probe.op = op
  /\ ~probe.raised

\* C29: the batch deletes remove exactly the rows whose key is listed and
\* leave every other row unchanged: delete_web_pages_by_sources the rows
\* whose source is listed, delete_file_pages_by_sources_and_pages the rows
\* whose (source, page) pair is listed, so that a row sharing only the
\* source or only the page with a listed pair is kept.
C29_DeleteExactlyListed ==
  /\ Deleted("delete_web_pages_by_sources") =>
       Seen = [probe.before EXCEPT
                 !.web_page =
                    SetToBag({r \in BagToSet(@) :
                                r.source \notin Range(probe.sources)})]
  /\ Deleted("delete_file_pages_by_sources_and_pages") =>
       Seen = [probe.before EXCEPT
                 !.file_page =
                    SetToBag({r \in BagToSet(@) :
                                \A k \in 1..Len(probe.pairs) :
                                  \/ probe.pairs[k][1] # r.source
                                  \/ probe.pairs[k][2] # r.page})]

C29_Witness ==
  /\ Deleted("delete_file_pages_by_sources_and_pages")
  /\ probe.pairs = <<(<<(<<"f1">>), (<<"1">>)>>)>>
  /\ {<<r.source, r.page>> : r \in BagToSet(probe.before.file_page)} =
       {<<(<<"f1">>), (<<"1">>)>>, <<(<<"f1">>), (<<"2">>)>>,
        <<(<<"f2">>), (<<"1">>)>>}
  /\ {<<r.source, r.page>> : r \in BagToSet(Seen.file_page)} =
       {<<(<<"f1">>), (<<"2">>)>>, <<(<<"f2">>), (<<"1">>)>>}

C29_WitnessWeb ==
  /\ Deleted("delete_web_pages_by_sources")
  /\ probe.sources = <<(<<"s1">>)>>
  /\ {r.source : r \in BagToSet(probe.before.web_page)} = Sources
  /\ {r.source : r \in BagToSet(Seen.web_page)} = {<<"s2">>}


\* The place of an insert unit's step in the order of the function's text.
InsertRank(pc) ==
  CASE pc = "add" -> 1 [] pc = "pages" -> 2 [] pc = "chunks" -> 3
    [] pc = "commit" -> 4 [] pc = "except" -> 5 [] pc = "undo" -> 6
    [] pc = "finally" -> 7 [] OTHER -> 8

InsertRunning(p) ==
  /\ unit[p].op \in InsertUnits
  /\ unit[p].pc \notin {"idle", "done"}

\* The compensating delete of an insert unit has failed.
UndoFailed(p) ==
  /\ unit[p].op \in InsertUnits
  /\ unit[p].undo = "failed"

\* At and after the compensating delete the session has been rolled back and
\* holds nothing; after a failed compensating delete the chunks written in
\* step 1 are still in the vector store and the unit raises RuntimeError.
InsertCompensation(p) ==
  /\ (unit[p].op \in InsertUnits /\ unit[p].pc = "undo") =>
       /\ unit[p].sess = <<"create", "rollback">>
       /\ session[p] = NoDelta
  /\ (unit[p].op \in InsertUnits /\ unit[p].undo # "none") =>
       /\ unit[p].sess \in {<<"create", "rollback">>,
                            <<"create", "rollback", "close">>}
       /\ ~unit[p].committed
  /\ UndoFailed(p) =>
       /\ unit[p].pc \in {"finally", "done"}
       /\ unit[p].result = "RuntimeError"
       /\ unit[p].chunks_metadata # <<>>
       /\ Range(InfoIds(unit[p].chunks_metadata))
            \subseteq DOMAIN vector_stores[unit[p].language]

\* A step of a running insert unit moves it forward in the function's text,
\* so no call is attempted twice; once the compensating delete has failed
\* the unit changes no store.
InsertStep(p) ==
  /\ (InsertRunning(p) /\ unit'[p] # unit[p]) =>
       InsertRank(unit'[p].pc) > InsertRank(unit[p].pc)
  /\ (InsertRunning(p) /\ UndoFailed(p)) =>
       /\ vector_stores' = vector_stores
       /\ Tables' = Tables

\* C26: in a failing insert unit the relational rollback comes before the
\* compensating vector delete; every store call of the unit (vector add,
\* metadata inserts, commit, compensating delete) is attempted at most once;
\* if the compensating delete fails, the unit makes no further store call,
\* the orphaned chunks stay in the vector store and RuntimeError is raised.
C26_InsertNoRetry ==
  /\ [](\A p \in Procs : InsertCompensation(p))
  /\ [][\A p \in Procs : InsertStep(p)]_vars

C26_Witness ==
  \E p \in Procs :
    /\ UndoFailed(p)
    /\ unit[p].pc = "done"
    /\ unit[p].failed_at = "commit"
    /\ unit[p].sess = <<"create", "rollback", "close">>
    /\ Range(InfoIds(unit[p].chunks_metadata))
         \subseteq DOMAIN vector_stores[unit[p].language]
    /\ \A c \in Range(unit[p].chunks_metadata) :
         \A r \in web_page_chunk \cup file_page_chunk :
           r.id # c.id


\* An update or delete unit that has started and not ended.
RemovalRunning(p) ==
  /\ unit[p].op \in {"update_web_data"} \cup DeleteUnits
  /\ unit[p].pc \notin {"idle", "done"}

\* The step marks rows of some table as deleted in session p; a row that the
\* same step writes back under its key (an UPDATE) is not a deletion.
DeletesRows(p) ==
  \/ ~(session'[p].wpc_del \subseteq session[p].wpc_del)
  \/ ~(session'[p].fpc_del \subseteq session[p].fpc_del)
  \/ \E r \in BagToSet(session'[p].wp_del) \ BagToSet(session[p].wp_del) :
       \A w \in BagToSet(session'[p].wp_ins) : w.source # r.source
  \/ \E r \in BagToSet(session'[p].fp_del) \ BagToSet(session[p].fp_del) :
       \A w \in BagToSet(session'[p].fp_ins) :
         w.source # r.source \/ w.page # r.page

\* The step removes an id from a partition of the vector store.
DeletesVectors ==
  \E l \in Langs : ~(DOMAIN vector_stores[l] \subseteq DOMAIN vector_stores'[l])

\* Where an update or delete unit stands when it is about to delete: the old
\* ids have been read, and old_documents is what the vector store holds for
\* them.
SnapshotTaken(p) ==
  (RemovalRunning(p) /\ unit[p].pc = "delete_rows") =>
    /\ {"old_chunk_ids", "old_documents"} \subseteq unit[p].bound
    /\ unit[p].old_documents =
         get_documents_by_ids(vector_stores[unit[p].language],
                              unit[p].old_chunk_ids)
    /\ session[p] = NoDelta

\* A unit that has committed has returned and only closes its session.
CommitIsLast(p) ==
  (unit[p].op \in {"update_web_data"} \cup DeleteUnits
     /\ unit[p].committed) =>
    /\ unit[p].pc \in {"finally", "done"}
    /\ unit[p].result = "returned"
    /\ unit[p].failed_at = "none"
    /\ session[p] = NoDelta

\* A step of a running update or delete unit.
RemovalStep(p) ==
  (RemovalRunning(p) /\ unit'[p] # unit[p]) =>
    LET u == unit[p]
        v == unit'[p]
    IN /\ v.pc = "snapshot" => u.pc \in {"get_ids", "get_language"}
       /\ v.pc = "delete_rows" => u.pc = "snapshot"
       /\ v.pc = "delete_pages" => u.pc = "delete_rows"
       /\ v.pc = "delete_vectors" => u.pc \in {"delete_rows", "delete_pages"}
       /\ DeletesRows(p) =>
            /\ u.pc \in {"delete_rows", "delete_pages"}
            /\ {"old_chunk_ids", "old_documents"} \subseteq u.bound
       /\ DeletesVectors =>
            /\ u.pc \in {"delete_vectors", "undo_new"}
            /\ {"old_chunk_ids", "old_documents"} \subseteq u.bound
       /\ Tables' # Tables => (u.pc = "commit" /\ v.committed)
       /\ (v.committed /\ ~u.committed) =>
            (u.pc = "commit" /\ v.pc = "finally")
       /\ u.committed =>
            (vector_stores' = vector_stores /\ Tables' = Tables /\ v.pc = "done")

\* C27: in every update and delete unit the old chunk ids are read from the
\* metadata store and their content is snapshotted from the vector store
\* before any deletion; the chunk rows are deleted before the vectors; and
\* the relational commit is the last store call of a successful unit.
C27_RemovalOrder ==
  /\ [](\A p \in Procs : SnapshotTaken(p) /\ CommitIsLast(p))
  /\ [][\A p \in Procs : RemovalStep(p)]_vars

\* An update that has deleted two old chunks, written new ones and committed.
C27_Witness ==
  \E p \in Procs :
    /\ unit[p].op = "update_web_data"
    /\ unit[p].pc = "finally"
    /\ unit[p].committed
    /\ Len(unit[p].old_chunk_ids) = 2
    /\ Len(unit[p].old_documents) = 2
    /\ Range(unit[p].old_chunk_ids) \cap
         DOMAIN vector_stores[unit[p].language] = {}

C27_WitnessDelete ==
  \E p \in Procs :
    /\ unit[p].op \in DeleteUnits
    /\ unit[p].pc = "finally"
    /\ unit[p].committed
    /\ Len(unit[p].old_documents) > 0
    /\ Range(unit[p].old_chunk_ids) \cap
         DOMAIN vector_stores[unit[p].language] = {}


\* The units of work one after another, in a process whose store calls
\* either all succeed or may each fail.
InitMayFail ==
  /\ InitStores
  /\ inject \in BOOLEAN
  /\ concurrent = FALSE
  /\ kind \in {"web", "file"}
  /\ scraper = [scraped_urls |-> {}, downloaded_files |-> {}]
  /\ site = NoSite
  /\ probe = NoProbe

SpecMayFail == InitMayFail /\ [][Next]_vars

\* update_web_data has just returned its new chunks_metadata.
UpdateReturned(p) ==
  /\ unit[p].op = "update_web_data"
  /\ unit[p].pc = "finally"
  /\ unit[p].committed

\* The chunk ids the source had when the update started.
OldIdsOf(p) ==
  {r.id : r \in {c \in pre[p].web_page_chunk : c.source = unit[p].source}}

\* The post-state of a returned update: the source's old ids are in no
\* partition and in no chunk row; one new id per chunk is returned, held in
\* the document's partition and by a chunk row of the source; the document
\* row carries the present time as its date and is otherwise the row it was;
\* every other page row is unchanged.
UpdatePostState(p) ==
  LET u == unit[p]
      new == Range(InfoIds(u.new_chunks_metadata))
      mine(r) == r.source = u.source
  IN /\ \A l \in Langs : OldIdsOf(p) \cap DOMAIN vector_stores[l] = {}
     /\ OldIdsOf(p) \cap {r.id : r \in web_page_chunk} = {}
     /\ Len(u.new_chunks_metadata) = Len(u.chunks)
     /\ Cardinality(new) = Len(u.chunks)
     /\ new \subseteq DOMAIN vector_stores[u.language]
     /\ \A i \in new : [id |-> i, source |-> u.source] \in web_page_chunk
     /\ SubBagWhere(pre[p].web_page, mine) # EmptyBag
     /\ \A r \in BagToSet(SubBagWhere(web_page, mine)) : r.date = now
     /\ web_page =
          (pre[p].web_page (-) SubBagWhere(pre[p].web_page, mine))
            (+) Redated(SubBagWhere(pre[p].web_page, mine))
     /\ file_page = pre[p].file_page
     /\ file_page_chunk = pre[p].file_page_chunk

\* C28: after update_web_data(source, chunks) returns successfully, none of
\* the source's old chunk ids remains in the vector store or in the chunk
\* table, every returned new chunk id is present in both, the document's
\* date has been reset to a time not earlier than the start of the update,
\* and the document row is otherwise unchanged.
C28_UpdatePostState ==
  \A p \in Procs : UpdateReturned(p) => UpdatePostState(p)

\* The same when no store call fails.
C28_UpdatePostState_NoFault ==
  \A p \in Procs : (UpdateReturned(p) /\ ~inject) => UpdatePostState(p)

\* An update of a page ingested a day earlier has replaced its two chunks.
C28_Witness ==
  \E p \in Procs :
    /\ UpdateReturned(p)
    /\ ~inject
    /\ Cardinality(OldIdsOf(p)) = 2
    /\ \E r \in BagToSet(pre[p].web_page) :
         r.source = unit[p].source /\ r.date < now
    /\ UpdatePostState(p)


\* The loop of scrape may take a turn: `while queue and pages_scraped <
\* max_pages` holds.  With no fault injected this is ENABLED scrape_loop.
LoopCondition ==
  /\ crawl.pc = "loop"
  /\ crawl.queue # <<>>
  /\ crawl.pages_scraped < crawl.max_pages

\* scrape under a scheduler that lets a running call take its next step:
\* every fetch returns, so a turn that may be taken is taken, and a loop
\* that has ended returns.  The first condition is WF_vars(scrape_loop)
\* with ENABLED written as the loop condition.
SpecScrapeFair ==
  /\ InitScrape
  /\ [][NextScrape]_vars
  /\ ([]<>(~LoopCondition) \/ []<><<scrape_loop>>_vars)
  /\ WF_vars(process_url_categorize)

\* The URLs reachable from the URLs of S over the hrefs of the site.
RECURSIVE ReachableFrom(_)
ReachableFrom(S) ==
  LET T == S \cup UNION {Range(Links(u)) : u \in S \cap Pages}
  IN IF T = S THEN S ELSE ReachableFrom(T)

\* While scrape runs and after it: no URL was dequeued twice, the dequeued
\* URLs and the queued ones are exactly the visited ones, all reachable from
\* the root, and the turns taken are no more than the reachable URLs.
ScrapeBounded ==
  crawl.pc # "idle" =>
    /\ \A i, j \in 1..Len(crawl.popped) :
         crawl.popped[i] = crawl.popped[j] => i = j
    /\ \A i, j \in 1..Len(crawl.queue) :
         crawl.queue[i] = crawl.queue[j] => i = j
    /\ Range(crawl.popped) \cap Range(crawl.queue) = {}
    /\ Range(crawl.popped) \cup Range(crawl.queue) = crawl.visited
    /\ crawl.visited \subseteq ReachableFrom({crawl.url})
    /\ Len(crawl.popped) <= Cardinality(ReachableFrom({crawl.url}))

\* A turn is taken only with a URL queued and budget left and dequeues one
\* URL; scrape returns only with the budget used up or the queue empty.
ScrapeTurn ==
  /\ LoopTurn =>
       /\ crawl.queue # <<>>
       /\ crawl.pages_scraped < crawl.max_pages
       /\ crawl'.popped = Append(crawl.popped, Head(crawl.queue))
  /\ (crawl.pc = "loop" /\ crawl'.pc # "loop") =>
       /\ crawl'.popped = crawl.popped
       /\ \/ crawl.queue = <<>>
          \/ Len(crawl.docs) = crawl.max_pages

\* C30: on a finite link graph on which every fetch returns, scrape
\* terminates: it ends when max_pages documents have been loaded or the
\* queue is empty, and it dequeues each URL at most once, so that the turns
\* of its loop are no more than the distinct URLs reachable from the root.
C30_ScrapeTerminates ==
  /\ [](ScrapeBounded)
  /\ [][ScrapeTurn]_vars
  /\ (crawl.pc = "loop") ~> (crawl.pc # "loop")

\* A scrape that has returned after three turns or more, more turns than
\* documents, with nothing left in the queue.
C30_Witness ==
  /\ crawl.pc = "inserting"
  /\ crawl.queue = <<>>
  /\ Len(crawl.popped) > Len(crawl.docs)
  /\ Len(crawl.popped) >= 3

\* A scrape that ended with budget left because the queue ran empty.
C30_WitnessExhausted ==
  /\ crawl.pc = "inserting"
  /\ crawl.queue = <<>>
  /\ Len(crawl.docs) < crawl.max_pages

\* A scrape that ended on its page budget with URLs still queued.
C30_WitnessBudget ==
  /\ crawl.pc = "inserting"
  /\ crawl.queue # <<>>
  /\ Len(crawl.docs) = crawl.max_pages


\* ---------------------------------------------------- one enqueue per URL
\* The queue of the running session holds visited URLs only, each once, and
\* the documents collected so far have pairwise distinct sources.
QueueVisitedOnce ==
  crawl.pc # "idle" =>
    /\ Range(crawl.queue) \subseteq crawl.visited
    /\ NoDuplicates(crawl.queue)
    /\ NoDuplicates([i \in 1..Len(crawl.docs) |-> crawl.docs[i].source])

\* A turn of the loop appends to the queue only URLs that were not visited
\* before the turn, and marks them visited; nothing leaves the visited set.
EnqueueOnce ==
  LoopTurn =>
    /\ crawl.visited \subseteq crawl'.visited
    /\ \A k \in 1..Len(crawl'.queue) :
         \/ k < Len(crawl.queue) /\ crawl'.queue[k] = crawl.queue[k + 1]
         \/ /\ k >= Len(crawl.queue)
            /\ crawl'.queue[k] \notin crawl.visited
            /\ crawl'.queue[k] \in crawl'.visited

\* C32: within one scrape session no URL is enqueued more than once: every
\* URL in the queue is in the visited set, the queue never contains
\* duplicates, and the returned documents have pairwise distinct sources.
C32_EnqueuedOnce == [](QueueVisitedOnce) /\ [][EnqueueOnce]_vars

\* scrape has returned two documents after a page linked back to a URL that
\* had been dequeued before and to a URL that was still queued.
C32_Witness ==
  /\ crawl.pc = "inserting"
  /\ Len(crawl.docs) = 2
  /\ \E i, j \in 1..Len(crawl.popped) :
       /\ i < j
       /\ crawl.popped[j] \in Pages
       /\ site[crawl.popped[j]].status_ok
       /\ crawl.popped[i] \in Range(Links(crawl.popped[j]))
  /\ \E j \in 1..Len(crawl.popped) :
       /\ crawl.popped[j] \in Pages
       /\ site[crawl.popped[j]].status_ok
       /\ \E k \in (j + 1)..Len(crawl.popped) :
            /\ crawl.popped[k] \in Range(Links(crawl.popped[j]))
            /\ \E m \in 1..(j - 1) :
                 /\ crawl.popped[m] \in Pages
                 /\ crawl.popped[k] \in Range(Links(crawl.popped[m]))

\* ------------------------------------------------- the subtree of the root
\* u has the network location of root and a path that extends root's path.
InSubtree(root, u) ==
  LET r == urlparse(root)
      c == urlparse(u)
  IN /\ c.netloc = r.netloc
     /\ startswith(c.path, r.path)
     /\ Len(c.path) > Len(r.path)

\* C33: every URL enqueued by the loop of scrape(root) has the root's
\* network location and a path that has the root's path as a prefix and is
\* longer than it (the root itself is the only other URL ever queued), and
\* the loop enqueues only URLs that pass the sub-URL test against the page
\* being processed: the crawl never leaves the root's subtree.
C33_WithinRootSubtree ==
  /\ [](crawl.pc # "idle" =>
          /\ crawl.url \in crawl.visited
          /\ \A u \in crawl.visited \ {crawl.url} : InSubtree(crawl.url, u)
          /\ \A i \in 1..Len(crawl.docs) :
               crawl.docs[i].source \in crawl.visited)
  /\ [][LoopTurn =>
          \A u \in crawl'.visited \ crawl.visited :
            _is_valid_suburl(urlparse(Head(crawl.queue)), urlparse(u))]_vars

\* scrape(https://x.org/a) has returned after visiting /a/b and /a/b/c and
\* after seeing links to the parent page and to another host.
C33_Witness ==
  /\ crawl.pc = "inserting"
  /\ crawl.url = U_a
  /\ {U_ab, U_abc} \subseteq crawl.visited
  /\ U_root \in crawl.considered
  /\ Len(crawl.popped) >= 2

\* scrape of the site root has seen the link to the other host and has not
\* followed it.
C33_WitnessOtherHost ==
  /\ crawl.pc = "inserting"
  /\ crawl.url = U_root
  /\ U_y \in crawl.considered
  /\ U_y \notin crawl.visited
  /\ U_ab \in crawl.visited

\* --------------------------------------------------- whole path segments
\* The segments of a path: '/a/b' has the segments a and b, '/' has none.
SegmentsOf(path) ==
  LET inner == strip(path, "/")
  IN IF inner = <<>> THEN <<>> ELSE split(inner, "/")

\* C34: a neighbor accepted by _is_valid_suburl is a true subdirectory of
\* the current page: the segments of the current page's path are an initial
\* part of the segments of the neighbor's path, so that /a/bc is rejected
\* for the current path /a/b.
C34_TrueSubdirectory ==
  (probe.pc = "answered" /\ probe.answer)
    => IsPrefix(SegmentsOf(probe.root.path), SegmentsOf(probe.child.path))

\* The same for the neighbors whose path continues with '/' where the
\* current page's path ends.
C34_TrueSubdirectory_AtSlash ==
  (/\ probe.pc = "answered"
   /\ Len(probe.child.path) > Len(probe.root.path)
   /\ \/ probe.root.path = <<"/">>
      \/ probe.child.path[Len(probe.root.path) + 1] = "/")
    => C34_TrueSubdirectory

\* /a/bc was accepted as a sub-URL of /a/b.
C34_SiblingAccepted ==
  /\ probe.pc = "answered"
  /\ probe.root.path = <<"/", "a", "/", "b">>
  /\ probe.child.path = <<"/", "a", "/", "b", "c">>
  /\ probe.child.netloc = probe.root.netloc
  /\ probe.answer

\* ------------------------------------------- process_url, calls may fail
\* A first process_url call that ended when the document loader raised on the
\* root: nothing was scraped, categorized or inserted.
LoaderRaised ==
  [url |-> U_root, max_pages |-> 1, due |-> FALSE, raised |-> TRUE,
   num_documents |-> 0, inserted |-> FALSE]

\* process_url on a service whose loader and store calls may each fail, after
\* such a first call: the call that follows is the last one.
InitCrawlFaults ==
  /\ vector_stores = [l \in Langs |-> EmptyStore]
  /\ web_page = EmptyBag
  /\ web_page_chunk = {}
  /\ file_page = EmptyBag
  /\ file_page_chunk = {}
  /\ session = [p \in Procs |-> NoDelta]
  /\ unit = [p \in Procs |-> Idle]
  /\ pre = [p \in Procs |-> Stores]
  /\ now = 0
  /\ nunits = 0
  /\ crawl = [NoCrawl EXCEPT !.url = U_root, !.max_pages = 1,
                              !.queue = <<U_root>>, !.visited = {U_root},
                              !.popped = <<U_root>>,
                              !.history = <<LoaderRaised>>]
  /\ inject = TRUE
  /\ concurrent = FALSE
  /\ kind = "web"
  /\ scraper = [scraped_urls |-> {}, downloaded_files |-> {}]
  /\ site \in Sites
  /\ probe = NoProbe

NextCrawlFaults ==
  \/ process_url_begin
  \/ scrape_loop
  \/ process_url_categorize
  \/ insert_web_data_add(1)
  \/ insert_web_data_pages(1)
  \/ insert_web_data_chunks(1)
  \/ insert_web_data_commit(1)
  \/ insert_web_data_except(1)
  \/ insert_web_data_undo(1)
  \/ insert_web_data_finally(1)
  \/ process_url_return

SpecCrawlFaults == InitCrawlFaults /\ [][NextCrawlFaults]_vars

\* process_url has just returned; what it returned.
ProcessUrlReturned == crawl.pc = "idle" /\ crawl.history # <<>>
LastReturn == crawl.history[Len(crawl.history)]

\* The documents and chunks handed to insert_web_data by the last crawl are
\* committed: a row per document, and per chunk an id held in the partition
\* of the crawl's language and a chunk row.
CrawlIngested ==
  LET u == unit[1]
  IN /\ u.caller = "process_url"
     /\ u.result = "returned"
     /\ u.committed
     /\ Len(u.chunks_metadata) = Len(u.chunks)
     /\ \A k \in 1..Len(u.docs_metadata) :
          \E w \in BagToSet(web_page) :
            w.source = u.docs_metadata[k].source
     /\ \A k \in 1..Len(u.chunks_metadata) :
          /\ u.chunks_metadata[k].id \in DOMAIN vector_stores[u.language]
          /\ \E r \in web_page_chunk :
               /\ r.id = u.chunks_metadata[k].id
               /\ r.source = u.chunks_metadata[k].source

\* C35: process_url reports only what was ingested: whenever it returns a
\* document count greater than 0, the new documents of that crawl and their
\* chunks are committed in both stores; when the insert unit fails,
\* process_url does not return a positive count.
C35_ReportsIngested ==
  (ProcessUrlReturned /\ ~LastReturn.raised /\ LastReturn.num_documents > 0)
    => CrawlIngested

\* A crawl of two new pages has been ingested and reported.
C35_Witness ==
  /\ ProcessUrlReturned
  /\ LastReturn.num_documents = 2
  /\ CrawlIngested
  /\ Len(unit[1].docs_metadata) = 2

\* process_url returned a positive count after insert_web_data had raised
\* RuntimeError and removed its vectors again.
C35_ReportedFailedInsert ==
  /\ ProcessUrlReturned
  /\ ~LastReturn.raised
  /\ LastReturn.num_documents > 0
  /\ unit[1].result = "RuntimeError"
  /\ unit[1].undo = "ok"
  /\ Stores = pre[1]

\* ------------------------------------------- vectors of deleted documents
\* The vector chunks of the documents a delete unit was called for: by
\* source for web pages, by source and page for file pages.
TargetedVectors(p, stores) ==
  LET u == unit[p]
      targeted(c) ==
        IF u.op = "delete_web_content_and_metadata"
        THEN c.source \in Range(u.sources)
        ELSE <<c.source, Str(c.page)>> \in Range(u.sources_and_pages)
  IN UNION {{<<l, i>> : i \in {j \in DOMAIN stores[l] :
                                  targeted(stores[l][j])}} : l \in Langs}

\* The commit of a delete unit succeeds in this step.
DeleteCommits(p) ==
  /\ unit[p].op \in DeleteUnits
  /\ unit[p].pc = "commit"
  /\ unit'[p].committed

\* The language argument of the delete unit is the language recorded for
\* every document it targets.
LanguageAsRecorded(p) ==
  LET u == unit[p]
  IN /\ \A w \in BagToSet(pre[p].web_page) :
          (u.op = "delete_web_content_and_metadata"
             /\ w.source \in Range(u.sources)) => w.language = u.language
     /\ \A f \in BagToSet(pre[p].file_page) :
          (u.op = "delete_file_content_and_metadata"
             /\ <<f.source, f.page>> \in Range(u.sources_and_pages))
            => f.language = u.language

\* C36: after a delete unit commits, no vector chunk of any of the deleted
\* documents remains in any language partition, whatever the language
\* argument was.
C36_NoVectorsAfterDelete ==
  [][\A p \in Procs :
       DeleteCommits(p) => TargetedVectors(p, vector_stores') = {}]_vars

\* The same for the delete units called with the language recorded for their
\* documents, when no store call fails.
C36_NoVectorsAfterDelete_SameLanguage ==
  [][\A p \in Procs :
       (DeleteCommits(p) /\ LanguageAsRecorded(p) /\ ~inject)
         => TargetedVectors(p, vector_stores') = {}]_vars

\* A delete unit called with the language recorded for its document has
\* removed the document's vectors and rows.
C36_Witness ==
  \E p \in Procs :
    /\ Done(p, DeleteUnits)
    /\ unit[p].committed
    /\ ~inject
    /\ LanguageAsRecorded(p)
    /\ TargetedVectors(p, pre[p].vector_stores) # {}
    /\ TargetedVectors(p, vector_stores) = {}

\* delete_web_content_and_metadata called with another language than the
\* recorded one has committed with no store call failing: the rows are gone,
\* the vectors are where they were.
C36_VectorsLeftBehind ==
  \E p \in Procs :
    /\ Done(p, {"delete_web_content_and_metadata"})
    /\ unit[p].committed
    /\ ~inject
    /\ TargetedVectors(p, vector_stores) # {}
    /\ vector_stores = pre[p].vector_stores
    /\ \A w \in BagToSet(web_page) : w.source \notin Range(unit[p].sources)
    /\ \A r \in web_page_chunk : r.source \notin Range(unit[p].sources)

\* ------------------------------------------------ crawling stored pages
\* The id of the one chunk a stored page of the site has.
StoredId(s) == IF s = U_root THEN 1 ELSE 2

\* process_url on a service that was started on stores holding pages of the
\* site, each ingested on day 0 with one chunk, and on a ledger file that
\* lists some of them.  A first call, process_url(root, 1) for a stored
\* root, has returned (0, 0) for want of new pages; one call follows.
InitRecrawl ==
  /\ \E stored \in (SUBSET Ledgered) \ {{}}, freq \in Freqs :
       /\ web_page = SetToBag({WebPageRow(s, 0, freq) : s \in stored})
       /\ web_page_chunk = {[id |-> StoredId(s), source |-> s] : s \in stored}
       /\ vector_stores =
            [l \in Langs |->
               IF l = "en"
               THEN [i \in {StoredId(s) : s \in stored} |->
                       [source |-> CHOOSE s \in stored : StoredId(s) = i,
                        page |-> NoPage, text |-> "t1"]]
               ELSE EmptyStore]
       /\ scraper \in {[scraped_urls |-> l, downloaded_files |-> {}] :
                         l \in SUBSET stored}
       /\ \E root \in stored :
            crawl = [NoCrawl EXCEPT
                       !.history =
                          <<[url |-> root, max_pages |-> 1, due |-> FALSE,
                             raised |-> FALSE, num_documents |-> 0,
                             inserted |-> FALSE]>>]
  /\ file_page = EmptyBag
  /\ file_page_chunk = {}
  /\ session = [p \in Procs |-> NoDelta]
  /\ unit = [p \in Procs |-> Idle]
  /\ pre = [p \in Procs |-> Stores]
  /\ now \in 0..MaxTime
  /\ nunits = 0
  /\ inject = FALSE
  /\ concurrent = FALSE
  /\ kind = "web"
  /\ site \in Sites
  /\ probe = NoProbe

SpecRecrawl == InitRecrawl /\ [][NextCrawl]_vars

\* What the stores hold for a source: its Document rows, its chunk rows and
\* its vector chunks per partition.
HeldFor(stores, src) ==
  [rows |-> {w \in BagToSet(stores.web_page) : w.source = src},
   copies |-> {<<w, CopiesIn(w, stores.web_page)>> :
                 w \in {x \in BagToSet(stores.web_page) : x.source = src}},
   chunk_rows |-> {r \in stores.web_page_chunk : r.source = src},
   vectors |-> [l \in Langs |->
                  {<<i, stores.vector_stores[l][i]>> :
                     i \in {j \in DOMAIN stores.vector_stores[l] :
                              stores.vector_stores[l][j].source = src}}]]

\* The sources of the documents scraped so far that have a committed
\* Document row, found by checksum as the categorizer finds it: it files
\* them as expired or as up-to-date.
NotNewSources ==
  {d.source : d \in {x \in Range(crawl.docs) :
                       \E w \in BagToSet(web_page) :
                         w.checksum = sha256(x.source)}}

\* The stores after the step.
StoresAfter ==
  [vector_stores |-> vector_stores', web_page |-> web_page',
   web_page_chunk |-> web_page_chunk', file_page |-> file_page',
   file_page_chunk |-> file_page_chunk']

\* C37: process_url writes only for documents categorized as new: no step of
\* a call changes the Document row, the ingestion date included, the chunk
\* rows or the vector chunks of a scraped document that is categorized as
\* expired or as up-to-date.
C37_OnlyNewWritten ==
  [][crawl.pc # "idle" =>
       \A src \in NotNewSources :
         HeldFor(StoresAfter, src) = HeldFor(Stores, src)]_vars

\* A call has returned after scraping a stored page that was due for a
\* refresh and a new page: the new page is ingested, the stored one is as it
\* was.
C37_Witness ==
  /\ ProcessUrlReturned
  /\ Len(crawl.history) = 2
  /\ LastReturn.inserted
  /\ Len(crawl.docs) = 2
  /\ CrawlIngested
  /\ Len(unit[1].docs_metadata) = 1
  /\ \E d \in Range(crawl.docs) :
       /\ \E w \in BagToSet(pre[1].web_page) :
            w.source = d.source /\ is_refresh_needed(w)
       /\ HeldFor(Stores, d.source) = HeldFor(pre[1], d.source)

\* The same with a stored page that was not due.
C37_WitnessUpToDate ==
  /\ ProcessUrlReturned
  /\ Len(crawl.history) = 2
  /\ LastReturn.inserted
  /\ Len(crawl.docs) = 2
  /\ CrawlIngested
  /\ \E d \in Range(crawl.docs) :
       /\ \E w \in BagToSet(pre[1].web_page) :
            w.source = d.source /\ ~is_refresh_needed(w)
       /\ HeldFor(Stores, d.source) = HeldFor(pre[1], d.source)

\* ------------------------------------------- update of an unknown source
\* The unit frame p is an update_web_data call that has ended, on a source
\* that had no Document row when the call began.
UpdateOfUnknown(p) ==
  /\ Done(p, {"update_web_data"})
  /\ \A w \in BagToSet(pre[p].web_page) : w.source # unit[p].source

\* C38: update_web_data on a source without a Document row raises a
\* RuntimeError, closes its session and leaves the vector store and the
\* metadata store as they were; it opened one session, rolled it back and
\* never committed.
C38_UpdateUnknownSource ==
  \A p \in Procs :
    UpdateOfUnknown(p) =>
      /\ unit[p].result = "RuntimeError"
      /\ ~unit[p].committed
      /\ unit[p].sess = <<"create", "rollback", "close">>
      /\ session[p] = NoDelta
      /\ Stores = pre[p]

\* Such a call on stores that hold another page, with no store call failing.
C38_Witness ==
  \E p \in Procs :
    /\ UpdateOfUnknown(p)
    /\ ~inject
    /\ unit[p].failed_at = "get_language"
    /\ unit[p].result = "RuntimeError"
    /\ web_page # EmptyBag
    /\ web_page_chunk # {}

\* --------------------------------------- old chunk rows without vectors
\* The old chunk rows of the updated source that are still in the chunk
\* table although their vectors are gone from the document's partition.
RowsWithoutVectors(p) ==
  {r \in web_page_chunk :
     /\ r.id \in OldIdsOf(p)
     /\ r.id \notin DOMAIN vector_stores[unit[p].language]}

\* C39: update_web_data commits only if the deletion of the old chunk rows
\* succeeded: a committed update never leaves old chunk rows of its source in
\* the metadata store while their vectors have been deleted.
C39_NoRowsWithoutVectors ==
  \A p \in Procs : UpdateReturned(p) => RowsWithoutVectors(p) = {}

\* The same when no store call fails.
C39_NoRowsWithoutVectors_NoFault ==
  \A p \in Procs : (UpdateReturned(p) /\ ~inject) => RowsWithoutVectors(p) = {}

\* An update has committed and returned its new chunk, held in both stores,
\* while the old chunk row of the source is still in the chunk table and its
\* vector is gone.
C39_CommittedWithOldRows ==
  \E p \in Procs :
    /\ UpdateReturned(p)
    /\ unit[p].result = "returned"
    /\ RowsWithoutVectors(p) # {}
    /\ Len(unit[p].new_chunks_metadata) = 1
    /\ \A i \in Range(InfoIds(unit[p].new_chunks_metadata)) :
         /\ i \in DOMAIN vector_stores[unit[p].language]
         /\ [id |-> i, source |-> unit[p].source] \in web_page_chunk

\* ------------------------------------------- two inserts of the same URL
\* Processes p and q have each run insert_web_data, and nothing else has
\* run: both for the same URL, which had no Document row, with chunks that
\* all carry their source, and both had begun before either wrote (they
\* started from the same stores).
InsertedSameUrl(p, q) ==
  /\ p # q
  /\ nunits = 2
  /\ Done(p, {"insert_web_data"})
  /\ Done(q, {"insert_web_data"})
  /\ pre[p] = pre[q]
  /\ unit[p].docs_metadata = unit[q].docs_metadata
  /\ unit[p].language = unit[q].language
  /\ Len(unit[p].docs_metadata) = 1
  /\ \A w \in BagToSet(pre[p].web_page) :
       w.source # unit[p].docs_metadata[1].source
  /\ \A c \in Range(unit[p].chunks) \cup Range(unit[q].chunks) :
       c.source # <<>>

\* Unit w has committed and unit l has not; the stores hold for the URL one
\* Document row, and exactly the chunk rows and vectors of w; the vectors l
\* had added are gone.
WonBy(w, l) ==
  LET src == unit[w].docs_metadata[1].source
      ids == Range(InfoIds(unit[w].chunks_metadata))
      lost == Range(InfoIds(unit[l].chunks_metadata))
  IN /\ unit[w].committed
     /\ unit[w].result = "returned"
     /\ ~unit[l].committed
     /\ unit[l].result = "RuntimeError"
     /\ SumOver({x \in BagToSet(web_page) : x.source = src}, web_page) = 1
     /\ {r \in web_page_chunk : r.source = src} =
          {[id |-> i, source |-> src] : i \in ids}
     /\ Cardinality(ids) = Len(unit[w].chunks)
     /\ \A lang \in Langs :
          {i \in DOMAIN vector_stores[lang] :
             vector_stores[lang][i].source = src} =
          (IF lang = unit[w].language THEN ids ELSE {})
     /\ \A k \in 1..Len(unit[w].chunks_metadata) :
          vector_stores[unit[w].language][unit[w].chunks_metadata[k].id] =
            unit[w].chunks[k]
     /\ lost # {}
     /\ lost \cap ids = {}
     /\ \A lang \in Langs : lost \cap DOMAIN vector_stores[lang] = {}
     /\ unit[l].undo = "ok"

\* C40: when two insert units for the same new URL run concurrently, exactly
\* one commits: afterwards there is a single Document row for the URL, the
\* chunk rows and vector chunks are exactly those of the committing unit,
\* and every chunk the losing unit added to the vector store has been removed
\* by its compensating delete.
C40_OneInsertWins ==
  \A p, q \in Procs :
    InsertedSameUrl(p, q) => (WonBy(p, q) \/ WonBy(q, p))

\* Two such units have ended: the loser failed at its INSERT of the Document
\* row after adding a chunk, which its compensation removed.
C40_Witness ==
  \E p, q \in Procs :
    /\ InsertedSameUrl(p, q)
    /\ WonBy(p, q)
    /\ Len(unit[q].chunks_metadata) = 1
    /\ unit[q].failed_at = "pages"
    /\ Len(unit[p].chunks) = 1

==========================================================================
